---- MODULE Spec2Model ----
(***************************************************************************)
(* Session reconstruction, purchase attribution, pagination, date-range    *)
(* resolution and ledger fetches of the analytics repository, as state     *)
(* machines.                                                               *)
(*                                                                         *)
(*   Spec       the event warehouse and PURCHASE_SESSIONS_QUERY_TEMPLATE   *)
(*   SpecPages  bigqueryPurchaseSessionsTool.execute over                  *)
(*              fetchPurchaseSessions                                      *)
(*   SpecFetch  fetchPurchaseSessions called with any options              *)
(*   SpecDates  computeDateRange (the workflow's resolve-date-range step)  *)
(*   SpecStripe getStripeCharges and the two card-ledger analytics tools   *)
(*   SpecPaypal fetchPaypalCardInfo and the wallet-ledger entry points     *)
(*   SpecRollups buildChargeSummary and buildTopCustomersSummary of both   *)
(*              ledgers                                                    *)
(*   SpecFx     currencyConversionTool.execute                             *)
(*   SpecWorkflow the analytics workflow: resolve-date-range,              *)
(*              fetch-stripe-charges, fetch-paypal-charges                 *)
(***************************************************************************)
EXTENDS Integers, Sequences, FiniteSets, TLC

VARIABLES
    events,      \* the rows of the events table (a set of event records)
    qwindow,     \* <<@startDate, @endDate>> of the last purchase-session query
    sessions,    \* the sessions_final rows of the last query
    rows,        \* the rows the last query returned, in ORDER BY order
    pg,          \* the multi-page tool: its locals, the source and the fetch log
    dr,          \* the date-range resolver: its input and its outcome
    card,        \* the card ledger: the remote charges, the call and its outcome
    wallet,      \* the wallet ledger: the remote transactions, the call and its outcome
    roll,        \* the rollups: the charge sequence given and the summaries built
    fx           \* the currency conversion tool: its input, its fetches and its outcome

vars == <<events, qwindow, sessions, rows, pg, dr, card, wallet, roll, fx>>

-----------------------------------------------------------------------------
(* SQL NULL for STRING columns and for INT64 columns.                      *)

NULL == "<null>"

NullInt == -1

Coalesce2(a, b) == IF a # NULL THEN a ELSE b

Coalesce3(a, b, c) == Coalesce2(a, Coalesce2(b, c))

Coalesce4(a, b, c, d) == Coalesce2(a, Coalesce3(b, c, d))

-----------------------------------------------------------------------------
(* Strings: the characters of a string s are SubSeq(s, i, i).              *)

CharAt(s, i) == SubSeq(s, i, i)

UpperAlphabet == "ABCDEFGHIJKLMNOPQRSTUVWXYZ"

LowerAlphabet == "abcdefghijklmnopqrstuvwxyz"

LowerChar(c) ==
    IF \E k \in 1..Len(UpperAlphabet) : CharAt(UpperAlphabet, k) = c
    THEN CharAt(LowerAlphabet, CHOOSE k \in 1..Len(UpperAlphabet) : CharAt(UpperAlphabet, k) = c)
    ELSE c

RECURSIVE LowerFrom(_, _)
LowerFrom(s, i) ==
    IF i > Len(s) THEN "" ELSE LowerChar(CharAt(s, i)) \o LowerFrom(s, i + 1)

\* LOWER(s), NULL for NULL
Lower(s) == IF s = NULL THEN NULL ELSE LowerFrom(s, 1)

\* does p occur in s at position i
MatchAt(s, p, i) == i >= 1 /\ i + Len(p) - 1 <= Len(s) /\ SubSeq(s, i, i + Len(p) - 1) = p

StartsWith(s, p) == MatchAt(s, p, 1)

EndsWith(s, p) == MatchAt(s, p, Len(s) - Len(p) + 1)

\* the end of the longest run of characters outside stop that starts at i
RECURSIVE RunEnd(_, _, _)
RunEnd(s, stop, i) ==
    IF i > Len(s) \/ CharAt(s, i) \in stop THEN i - 1 ELSE RunEnd(s, stop, i + 1)

-----------------------------------------------------------------------------
(* The regular expressions of the query, computed on the characters.       *)

\* the leftmost i at or after `from` with s[i] in {?, &} followed by key and "="; 0 when none
RECURSIVE ParamPos(_, _, _)
ParamPos(s, key, from) ==
    IF from > Len(s) THEN 0
    ELSE IF CharAt(s, from) \in {"?", "&"} /\ MatchAt(s, key \o "=", from + 1) THEN from
    ELSE ParamPos(s, key, from + 1)

\* REGEXP_EXTRACT(url, r'[?&]<key>=([^&#]*)')
UrlParam(url, key) ==
    IF url = NULL THEN NULL
    ELSE LET p == ParamPos(url, key, 1)
             first == p + Len(key) + 2
         IN  IF p = 0 THEN NULL ELSE SubSeq(url, first, RunEnd(url, {"&", "#"}, first))

\* the length of the prefix matched by ^https?://, 0 when none
SchemeLen(s) ==
    IF StartsWith(s, "https://") THEN 8 ELSE IF StartsWith(s, "http://") THEN 7 ELSE 0

\* REGEXP_EXTRACT(url, r'^https?://([^/:]+)')
UrlHost(url) ==
    IF url = NULL THEN NULL
    ELSE LET n == SchemeLen(url)
             last == RunEnd(url, {"/", ":"}, n + 1)
         IN  IF n = 0 \/ last < n + 1 THEN NULL ELSE SubSeq(url, n + 1, last)

OwnDomain == "superalink.com"

OwnDomainExactHost(ref) == Coalesce2(UrlHost(ref), "") = OwnDomain

\* REGEXP_CONTAINS(LOWER(COALESCE(REGEXP_EXTRACT(ref, r'^https?://([^/:]+)'), '')),
\*                 r'(^|\.)superalink\.com$')
IsOwnDomainReferrer(ref) ==
    LET h == Lower(Coalesce2(UrlHost(ref), ""))
    IN  /\ EndsWith(h, OwnDomain)
        /\ \/ Len(h) = Len(OwnDomain)
           \/ CharAt(h, Len(h) - Len(OwnDomain)) = "."

\* REGEXP_CONTAINS(ref, r'(?i)://(www\.)?<engine>')
ContainsEngine(ref, engine) ==
    LET l == Lower(ref)
    IN  \E i \in 1..Len(l) :
            MatchAt(l, "://" \o engine, i) \/ MatchAt(l, "://www." \o engine, i)

\* the WHEN arms shared by ref_medium and ref_source: <<pattern, source name>>
SearchEngines ==
    << <<"google.", "google">>, <<"bing.", "bing">>, <<"search.yahoo.", "yahoo">>,
       <<"duckduckgo.", "duckduckgo">>, <<"baidu.", "baidu">>, <<"yandex.", "yandex">> >>

\* the index of the first WHEN arm that matches, 0 when none does
FirstEngine(ref) ==
    IF \E k \in 1..Len(SearchEngines) : ContainsEngine(ref, SearchEngines[k][1])
    THEN CHOOSE k \in 1..Len(SearchEngines) :
            /\ ContainsEngine(ref, SearchEngines[k][1])
            /\ \A j \in 1..(k - 1) : ~ContainsEngine(ref, SearchEngines[j][1])
    ELSE 0

\* ref_derived.ref_medium
RefMedium(first_referrer) ==
    IF first_referrer = NULL THEN NULL
    ELSE IF FirstEngine(first_referrer) # 0 THEN "organic"
    ELSE "referral"

\* ref_derived.ref_source
RefSource(first_referrer) ==
    IF first_referrer = NULL THEN NULL
    ELSE IF FirstEngine(first_referrer) # 0 THEN SearchEngines[FirstEngine(first_referrer)][2]
    ELSE Lower(UrlHost(first_referrer))

\* CAST(n AS STRING) for n >= 0
Digits == "0123456789"

RECURSIVE IntToString(_)
IntToString(n) ==
    IF n < 10 THEN CharAt(Digits, n + 1)
    ELSE IntToString(n \div 10) \o CharAt(Digits, (n % 10) + 1)

ConcatSkippingNull(user_pseudo_id, ga_session_id) ==
    (IF user_pseudo_id = NULL THEN "" ELSE user_pseudo_id) \o "."
        \o (IF ga_session_id = NullInt THEN "" ELSE IntToString(ga_session_id))

\* CONCAT(user_pseudo_id, '.', CAST(ga_session_id AS STRING)): NULL when an argument is
SessionKey(user_pseudo_id, ga_session_id) ==
    IF user_pseudo_id = NULL \/ ga_session_id = NullInt THEN NULL
    ELSE user_pseudo_id \o "." \o IntToString(ga_session_id)

-----------------------------------------------------------------------------
(* The events table.  An event carries the columns and the event_params    *)
(* keys the query reads; a key the event does not carry is NULL.           *)
(* event_timestamp is in hours since the epoch (UTC).                      *)

MaxEvents == 2

Timestamps == {10, 20}

SessionIds == {1, NullInt}

Event(name, sid, ts, p) ==
    [ event_name |-> name, user_pseudo_id |-> "u1", ga_session_id |-> sid,
      event_timestamp |-> ts,
      transaction_id |-> p[1],
      source |-> p[2], medium |-> p[3], campaign |-> p[4],
      page_location |-> p[5], page_referrer |-> p[6],
      engagement_time_msec |-> p[7],
      page_title |-> p[8] ]

\* <<transaction_id, source, medium, campaign, page_location, page_referrer,
\*   engagement_time_msec, page_title>>
SessionStartParams ==
    { <<NULL, NULL, NULL, NULL, NULL, NULL, NullInt, NULL>>,
      <<NULL, "newsletter", NULL, NULL, NULL, NULL, NullInt, NULL>>,
      <<NULL, NULL, NULL, "promo", NULL, NULL, NullInt, NULL>> }

PageViewParams ==
    { <<NULL, NULL, NULL, NULL, "https://superalink.com/", "", 10000, "Home">>,
      <<NULL, NULL, NULL, NULL, "https://superalink.com/?utm_medium=cpc&utm_campaign=sale", NULL,
        NullInt, NULL>>,
      <<NULL, NULL, NULL, NULL, "https://superalink.com/p", "https://www.google.com/", 9999,
        "P">>,
      <<NULL, NULL, NULL, NULL, "https://superalink.com/p", "https://Shop.Superalink.com/c",
        NullInt, "P">>,
      <<NULL, NULL, NULL, NULL, "https://superalink.com/p", "https://blog.example.org/a",
        NullInt, "P">>,
      <<NULL, NULL, NULL, NULL, "https://superalink.com/p", "android-app://com.google.android.gm",
        NullInt, "P">>,
      <<NULL, NULL, NULL, NULL, "https://superalink.com/p", "https://m.baidu.com/s", NullInt,
        "P">> }

PurchaseParams ==
    { <<NULL, NULL, NULL, NULL, NULL, NULL, NullInt, NULL>>,
      <<"T1", NULL, NULL, NULL, NULL, NULL, 1, NULL>> }

\* a page view of a second session of the same visitor
OtherSessionParams ==
    <<NULL, NULL, NULL, NULL, "https://superalink.com/", "", NullInt, "Home">>

EventPool ==
    UNION { { Event("session_start", sid, ts, p) : p \in SessionStartParams }
            \cup { Event("page_view", sid, ts, p) : p \in PageViewParams }
            \cup { Event("purchase", sid, ts, p) : p \in PurchaseParams }
          : sid \in SessionIds, ts \in Timestamps }
        \cup { Event("page_view", 2, ts, OtherSessionParams) : ts \in Timestamps }

\* the @startDate / @endDate pairs a query is run with; NullInt is an absent bound
Windows == { <<NullInt, NullInt>>, <<1, 1>> }

-----------------------------------------------------------------------------
(* PURCHASE_SESSIONS_QUERY_TEMPLATE, one operator per common table          *)
(* expression.  An aggregate whose result SQL leaves open (ANY_VALUE, the   *)
(* first element of an ARRAY_AGG ordered by a key with ties) is the set of *)
(* the values it may return.                                               *)

TzOffsetHours == 8

HoursPerDay == 24

\* DATE(TIMESTAMP_MICROS(event_timestamp), 'Asia/Makassar'), in days since the epoch
DateOf(ts) == (ts + TzOffsetHours) \div HoursPerDay

InWindow(e, startDate, endDate) ==
    /\ (startDate = NullInt \/ DateOf(e.event_timestamp) >= startDate)
    /\ (endDate = NullInt \/ DateOf(e.event_timestamp) <= endDate)

purchases(startDate, endDate) ==
    { e \in events : e.event_name = "purchase" /\ InWindow(e, startDate, endDate) }

source(startDate, endDate) ==
    { [ transaction_id |-> p.transaction_id,
        session_key |-> SessionKey(p.user_pseudo_id, p.ga_session_id),
        user_pseudo_id |-> p.user_pseudo_id,
        ga_session_id |-> p.ga_session_id,
        purchase_ts |-> p.event_timestamp,
        event_date |-> DateOf(p.event_timestamp) ]
      : p \in { q \in purchases(startDate, endDate) : q.transaction_id # NULL } }

events_base(startDate, endDate) == { e \in events : InWindow(e, startDate, endDate) }

\* the keys of GROUP BY user_pseudo_id, ga_session_id (NULLs group together)
GroupKeys(base) == { <<e.user_pseudo_id, e.ga_session_id>> : e \in base }

GroupEvents(base, g) ==
    { e \in base : e.user_pseudo_id = g[1] /\ e.ga_session_id = g[2] }

\* ON x.user_pseudo_id = sb.user_pseudo_id AND x.ga_session_id = sb.ga_session_id
\* for the row of the same group: an equality with a NULL operand is not true
JoinsOnKey(g) == g[1] # NULL /\ g[2] # NullInt

\* ANY_VALUE(expr) over a non-empty group: some non-NULL value, NULL when all are NULL
AnyValue(vals) == IF vals \ {NULL} = {} THEN {NULL} ELSE vals \ {NULL}

\* ARRAY_AGG(v IGNORE NULLS ORDER BY ts ASC)[OFFSET(0)] over <<ts, v>> pairs
ArrayAggFirst(pairs) ==
    LET nn == { p \in pairs : p[2] # NULL }
    IN  IF nn = {} THEN {NULL}
        ELSE { p[2] : p \in { q \in nn : \A r \in nn : q[1] <= r[1] } }

\* ARRAY_AGG(v IGNORE NULLS ORDER BY ts DESC)[OFFSET(0)]
ArrayAggLast(pairs) ==
    LET nn == { p \in pairs : p[2] # NULL }
    IN  IF nn = {} THEN {NULL}
        ELSE { p[2] : p \in { q \in nn : \A r \in nn : q[1] >= r[1] } }

Min(S) == CHOOSE x \in S : \A y \in S : x <= y

Max(S) == CHOOSE x \in S : \A y \in S : x >= y

\* the rows starts may hold for group g; none when the group has no session_start
starts(base, g) ==
    LET ss == { e \in GroupEvents(base, g) : e.event_name = "session_start" }
    IN  IF ss = {} THEN {}
        ELSE { [ utm_source_start |-> a, utm_medium_start |-> b, utm_campaign_start |-> c ]
               : a \in AnyValue({ e.source : e \in ss }),
                 b \in AnyValue({ e.medium : e \in ss }),
                 c \in AnyValue({ e.campaign : e \in ss }) }

NoStarts ==
    [ utm_source_start |-> NULL, utm_medium_start |-> NULL, utm_campaign_start |-> NULL ]

\* session_pages.landing_url
landing_url(base, g) ==
    ArrayAggFirst({ <<e.event_timestamp,
                      IF e.event_name = "page_view" THEN e.page_location ELSE NULL>>
                    : e \in GroupEvents(base, g) })

\* session_pages.landing_title
landing_title(base, g) ==
    ArrayAggFirst({ <<e.event_timestamp,
                      IF e.event_name = "page_view" THEN e.page_title ELSE NULL>>
                    : e \in GroupEvents(base, g) })

\* session_pages.exit_url
exit_url(base, g) ==
    ArrayAggLast({ <<e.event_timestamp,
                     IF e.event_name = "page_view" THEN e.page_location ELSE NULL>>
                   : e \in GroupEvents(base, g) })

\* session_pages.pageviews_count
pageviews_count(base, g) ==
    Cardinality({ e \in GroupEvents(base, g) : e.event_name = "page_view" })

\* the rows session_pages may hold for group g: its three aggregates are independent
session_pages(base, g) ==
    { [ landing_url |-> l, landing_title |-> t, exit_url |-> x ]
      : l \in landing_url(base, g), t \in landing_title(base, g), x \in exit_url(base, g) }

NoPages == [ landing_url |-> NULL, landing_title |-> NULL, exit_url |-> NULL ]

\* first_ext_ref.first_referrer; no row when the group has no external referrer
first_ext_ref(base, g) ==
    LET ext == { e \in GroupEvents(base, g) :
                    /\ e.event_name = "page_view"
                    /\ e.page_referrer # NULL
                    /\ e.page_referrer # ""
                    /\ ~IsOwnDomainReferrer(e.page_referrer) }
    IN  IF ext = {} THEN {}
        ELSE ArrayAggFirst({ <<e.event_timestamp, e.page_referrer>> : e \in ext })

\* the page_location and page_referrer values of the table, NULL among them
PageLocations == { e.page_location : e \in EventPool }

PageReferrers == { e.page_referrer : e \in EventPool }

\* utm_from_landing: the UTM parameters of a landing URL
utm_from_landing ==
    [ landing \in PageLocations |->
        [ utm_source_lp |-> UrlParam(landing, "utm_source"),
          utm_medium_lp |-> UrlParam(landing, "utm_medium"),
          utm_campaign_lp |-> UrlParam(landing, "utm_campaign") ] ]

\* ref_derived: the classification of a first_referrer
ref_derived ==
    [ first_referrer \in PageReferrers |->
        [ ref_source |-> RefSource(first_referrer),
          ref_medium |-> RefMedium(first_referrer) ] ]

CountSessionStarts(base, g) ==
    Cardinality({ e \in GroupEvents(base, g) : e.event_name = "session_start" })

\* session_metrics.events_count
events_count(base, g) == Cardinality(GroupEvents(base, g))

\* session_metrics.transactions_count
transactions_count(base, g) ==
    Cardinality({ e \in GroupEvents(base, g) : e.event_name = "purchase" })

\* the flag with transactions_count > 1
conversion_flagRepeatPurchase(count) ==
    IF count = NullInt THEN NULL ELSE IF count > 1 THEN "true" ELSE "false"

\* (sm.transactions_count > 0) AS conversion_flag: NULL when the count is
conversion_flag(count) ==
    IF count = NullInt THEN NULL ELSE IF count > 0 THEN "true" ELSE "false"

RECURSIVE SumEngagement(_)
SumEngagement(G) ==
    IF G = {} THEN 0
    ELSE LET e == CHOOSE e \in G : TRUE
         IN  (IF e.engagement_time_msec = NullInt THEN 0 ELSE e.engagement_time_msec)
                 + SumEngagement(G \ {e})

\* session_metrics.engagement_time_msec_sum: SUM(COALESCE(engagement_time_msec, 0))
engagement_time_msec_sum(base, g) == SumEngagement(GroupEvents(base, g))

\* SQL BOOL values, NULL being the third
SqlBool(b) == IF b THEN "true" ELSE "false"

\* a >= n and a = n over INT64: NULL when a is
GreaterOrEqual(a, n) == IF a = NullInt THEN NULL ELSE SqlBool(a >= n)

Equal(a, n) == IF a = NullInt THEN NULL ELSE SqlBool(a = n)

SqlOr(a, b) ==
    IF a = "true" \/ b = "true" THEN "true"
    ELSE IF a = NULL \/ b = NULL THEN NULL
    ELSE "false"

SqlAnd(a, b) ==
    IF a = "false" \/ b = "false" THEN "false"
    ELSE IF a = NULL \/ b = NULL THEN NULL
    ELSE "true"

SqlNot(a) == IF a = NULL THEN NULL ELSE SqlBool(a = "false")

EngagedAboveThreshold(engagement_sum, pageviews) ==
    SqlOr(GreaterOrEqual(engagement_sum, 10001), GreaterOrEqual(pageviews, 2))

\* sessions_final.is_engaged_session
is_engaged_session(engagement_sum, pageviews) ==
    SqlOr(GreaterOrEqual(engagement_sum, 10000), GreaterOrEqual(pageviews, 2))

\* sessions_final.bounce_like
bounce_like(engagement_sum, pageviews) ==
    SqlAnd(Equal(pageviews, 1),
           SqlNot(SqlOr(GreaterOrEqual(engagement_sum, 10000), GreaterOrEqual(pageviews, 2))))

\* sessions_final.traffic_source_type
traffic_source_type(utm_source_start, utm_medium_start, utm_source_lp, utm_medium_lp, ref_source) ==
    IF utm_source_start # NULL \/ utm_medium_start # NULL THEN "session_start"
    ELSE IF utm_source_lp # NULL \/ utm_medium_lp # NULL THEN "first_pageview_utm"
    ELSE IF ref_source # NULL THEN "referrer"
    ELSE "direct"

\* sessions_final.traffic_source
traffic_source(utm_source_start, utm_source_lp, ref_source) ==
    Coalesce4(utm_source_start, utm_source_lp, ref_source, "(direct)")

\* sessions_final.traffic_medium
traffic_medium(utm_medium_start, utm_medium_lp, ref_medium) ==
    Coalesce4(utm_medium_start, utm_medium_lp, ref_medium, "(none)")

\* sessions_final.traffic_campaign
traffic_campaign(utm_campaign_start, utm_campaign_lp) ==
    Coalesce3(utm_campaign_start, utm_campaign_lp, "(not set)")

\* the sessions_final row of group g, given the row of starts (st), the row of
\* session_pages (pages) and the first_referrer of first_ext_ref joined to it
sessions_final_row(base, g, st, pages, first_referrer) ==
    LET joined == JoinsOnKey(g)
        G == GroupEvents(base, g)
        landing == pages.landing_url
        utm_source_lp == utm_from_landing[landing].utm_source_lp
        utm_medium_lp == utm_from_landing[landing].utm_medium_lp
        utm_campaign_lp == utm_from_landing[landing].utm_campaign_lp
        ref_source == ref_derived[first_referrer].ref_source
        ref_medium == ref_derived[first_referrer].ref_medium
        pageviews == IF joined THEN pageviews_count(base, g) ELSE NullInt
        engagement_sum == IF joined THEN engagement_time_msec_sum(base, g) ELSE NullInt
    IN  [ session_key |-> SessionKey(g[1], g[2]),
          user_pseudo_id |-> g[1],
          ga_session_id |-> g[2],
          session_start_ts |-> Min({ e.event_timestamp : e \in G }),
          session_end_ts |-> Max({ e.event_timestamp : e \in G }),
          pageviews_count |-> pageviews,
          events_count |-> IF joined THEN events_count(base, g) ELSE NullInt,
          engagement_time_msec_sum |-> engagement_sum,
          is_engaged_session |-> is_engaged_session(engagement_sum, pageviews),
          bounce_like |-> bounce_like(engagement_sum, pageviews),
          transactions_count |-> IF joined THEN transactions_count(base, g) ELSE NullInt,
          conversion_flag |->
              conversion_flag(IF joined THEN transactions_count(base, g) ELSE NullInt),
          landing_url |-> landing,
          landing_title |-> pages.landing_title,
          exit_url |-> pages.exit_url,
          utm_source_start |-> st.utm_source_start,
          utm_medium_start |-> st.utm_medium_start,
          utm_campaign_start |-> st.utm_campaign_start,
          utm_source_lp |-> utm_source_lp,
          utm_medium_lp |-> utm_medium_lp,
          utm_campaign_lp |-> utm_campaign_lp,
          ref_source |-> ref_source,
          ref_medium |-> ref_medium,
          traffic_source_type |->
              traffic_source_type(st.utm_source_start, st.utm_medium_start,
                                  utm_source_lp, utm_medium_lp, ref_source),
          traffic_source |-> traffic_source(st.utm_source_start, utm_source_lp, ref_source),
          traffic_medium |-> traffic_medium(st.utm_medium_start, utm_medium_lp, ref_medium),
          traffic_campaign |-> traffic_campaign(st.utm_campaign_start, utm_campaign_lp) ]

\* the rows sessions_final may hold for group g: the LEFT JOINs of sessions_base with
\* starts, session_pages / utm_from_landing and ref_derived
sessions_final_rows(base, g) ==
    LET joined == JoinsOnKey(g)
        sts == IF joined /\ starts(base, g) # {} THEN starts(base, g) ELSE {NoStarts}
        pages == IF joined THEN session_pages(base, g) ELSE {NoPages}
        refs == IF joined /\ first_ext_ref(base, g) # {} THEN first_ext_ref(base, g) ELSE {NULL}
    IN  { sessions_final_row(base, g, s, p, r) : s \in sts, p \in pages, r \in refs }

\* the tables sessions_final may be: one row for every group of sessions_base
sessions_final(base) ==
    LET keys == GroupKeys(base)
        cand == UNION { sessions_final_rows(base, g) : g \in keys }
    IN  { { f[g] : g \in keys }
          : f \in { h \in [keys -> cand] : \A g \in keys : h[g] \in sessions_final_rows(base, g) } }

\* the session columns of an output row no session was joined to
NoSession ==
    [ session_key |-> NULL, user_pseudo_id |-> NULL, ga_session_id |-> NullInt,
      session_start_ts |-> NullInt, session_end_ts |-> NullInt,
      pageviews_count |-> NullInt, events_count |-> NullInt, transactions_count |-> NullInt,
      conversion_flag |-> NULL,
      engagement_time_msec_sum |-> NullInt, is_engaged_session |-> NULL, bounce_like |-> NULL,
      landing_url |-> NULL, landing_title |-> NULL, exit_url |-> NULL,
      utm_source_start |-> NULL, utm_medium_start |-> NULL, utm_campaign_start |-> NULL,
      utm_source_lp |-> NULL, utm_medium_lp |-> NULL, utm_campaign_lp |-> NULL,
      ref_source |-> NULL, ref_medium |-> NULL,
      traffic_source_type |-> NULL, traffic_source |-> NULL, traffic_medium |-> NULL,
      traffic_campaign |-> NULL ]

InnerJoinSessions(src, sess) ==
    { <<p, s>> \in src \X sess :
        p.session_key # NULL /\ s.session_key # NULL /\ p.session_key = s.session_key }

\* FROM source LEFT JOIN sessions_final AS sessions ON source.session_key = sessions.session_key
LeftJoinSessions(src, sess) ==
    UNION { LET m == { s \in sess : /\ p.session_key # NULL
                                    /\ s.session_key # NULL
                                    /\ p.session_key = s.session_key }
            IN  IF m = {} THEN { <<p, NoSession>> } ELSE { <<p, s>> : s \in m }
          : p \in src }

\* the final SELECT list
OutputRow(p, s) ==
    [ transactionId |-> p.transaction_id,
      userPseudoId |-> p.user_pseudo_id,
      gaSessionId |-> p.ga_session_id,
      purchaseTimestamp |-> p.purchase_ts,
      eventDate |-> p.event_date,
      sessionKey |-> p.session_key,
      sessionStartTime |-> s.session_start_ts,
      sessionEndTime |-> s.session_end_ts,
      sessionPageviewsCount |-> s.pageviews_count,
      sessionEventsCount |-> s.events_count,
      sessionEngagementTimeMsec |-> s.engagement_time_msec_sum,
      sessionIsEngaged |-> s.is_engaged_session,
      sessionBounceLike |-> s.bounce_like,
      sessionTransactionsCount |-> s.transactions_count,
      sessionConversionFlag |-> s.conversion_flag,
      sessionLandingUrl |-> s.landing_url,
      sessionLandingTitle |-> s.landing_title,
      sessionExitUrl |-> s.exit_url,
      sessionUtmSourceStart |-> s.utm_source_start,
      sessionUtmMediumStart |-> s.utm_medium_start,
      sessionUtmCampaignStart |-> s.utm_campaign_start,
      sessionUtmSourceLanding |-> s.utm_source_lp,
      sessionUtmMediumLanding |-> s.utm_medium_lp,
      sessionUtmCampaignLanding |-> s.utm_campaign_lp,
      sessionRefSource |-> s.ref_source,
      sessionRefMedium |-> s.ref_medium,
      sessionTrafficSourceType |-> s.traffic_source_type,
      sessionTrafficSource |-> s.traffic_source,
      sessionTrafficMedium |-> s.traffic_medium,
      sessionTrafficCampaign |-> s.traffic_campaign ]

\* ORDER BY source.purchase_ts: every listing of the joined pairs in nondecreasing purchase_ts
RECURSIVE OrderByPurchaseTs(_)
OrderByPurchaseTs(pairs) ==
    IF pairs = {} THEN { <<>> }
    ELSE UNION { { <<OutputRow(pr[1], pr[2])>> \o t : t \in OrderByPurchaseTs(pairs \ {pr}) }
                 : pr \in { x \in pairs : \A y \in pairs : x[1].purchase_ts <= y[1].purchase_ts } }

\* the results the query may return for a sessions_final table, before LIMIT / OFFSET
PurchaseSessionsQuery(startDate, endDate, sess) ==
    OrderByPurchaseTs(
        { pr \in LeftJoinSessions(source(startDate, endDate), sess) :
            /\ (startDate = NullInt \/ pr[1].event_date >= startDate)
            /\ (endDate = NullInt \/ pr[1].event_date <= endDate) })

-----------------------------------------------------------------------------
(* The warehouse specification: events arrive, and the query is run.       *)

NoQuery == <<>>

InitWarehouse ==
    /\ events = {}
    /\ qwindow = NoQuery
    /\ sessions = {}
    /\ rows = <<>>

\* an event is written to the events table; the last response is gone by then
Ingest(e) ==
    /\ Cardinality(events) < MaxEvents
    /\ e \notin events
    /\ events' = events \cup {e}
    /\ qwindow' = NoQuery
    /\ sessions' = {}
    /\ rows' = <<>>
    /\ UNCHANGED <<pg, dr, card, wallet, roll, fx>>

\* the purchase-session query is run for the window w
RunQuery(w) ==
    /\ \E sess \in sessions_final(events_base(w[1], w[2])) :
          /\ sessions' = sess
          /\ rows' \in PurchaseSessionsQuery(w[1], w[2], sess)
    /\ qwindow' = w
    /\ UNCHANGED <<events, pg, dr, card, wallet, roll, fx>>

-----------------------------------------------------------------------------
(* Claims about the attribution cascade and the join (Spec).               *)

\* the events of the last query's window that belong to the session row s
SessionEvents(s) ==
    GroupEvents(events_base(qwindow[1], qwindow[2]), <<s.user_pseudo_id, s.ga_session_id>>)

\* a session in the sense of the data model: keyed by (visitorId, sessionId)
KeyedSessions == { s \in sessions : s.session_key # NULL }

StartCarriesSourceOrMedium(s) ==
    \E e \in SessionEvents(s) :
        e.event_name = "session_start" /\ (e.source # NULL \/ e.medium # NULL)

LandingCarriesUtm(s) ==
    UrlParam(s.landing_url, "utm_source") # NULL \/ UrlParam(s.landing_url, "utm_medium") # NULL

HasExternalReferrer(s) ==
    \E e \in SessionEvents(s) :
        /\ e.event_name = "page_view"
        /\ e.page_referrer \notin {NULL, ""}
        /\ ~IsOwnDomainReferrer(e.page_referrer)

CascadeTier(s) ==
    IF StartCarriesSourceOrMedium(s) THEN "session_start"
    ELSE IF LandingCarriesUtm(s) THEN "first_pageview_utm"
    ELSE IF HasExternalReferrer(s) THEN "referrer"
    ELSE "direct"

\* C1: every session's sourceType is the first tier of the cascade that applies:
\* session_start iff a session_start event carries source or medium, else
\* first_pageview_utm iff the landing URL carries utm_source or utm_medium, else
\* referrer iff the session has an external, non-empty page_view referrer, else direct.
C1_SourceTypeFollowsCascade ==
    \A s \in KeyedSessions : s.traffic_source_type = CascadeTier(s)

OrDefault(v, d) == IF v # NULL THEN v ELSE d

\* C2: the verdict's source, medium and campaign all come from the one tier that
\* sourceType names (or are the sentinel when that tier has no value for the field);
\* no field is filled from another tier.
C2_VerdictFromOneTier ==
    \A s \in KeyedSessions :
        /\ s.traffic_source_type = "session_start" =>
              /\ s.traffic_source = OrDefault(s.utm_source_start, "(direct)")
              /\ s.traffic_medium = OrDefault(s.utm_medium_start, "(none)")
              /\ s.traffic_campaign = OrDefault(s.utm_campaign_start, "(not set)")
        /\ s.traffic_source_type = "first_pageview_utm" =>
              /\ s.traffic_source = OrDefault(s.utm_source_lp, "(direct)")
              /\ s.traffic_medium = OrDefault(s.utm_medium_lp, "(none)")
              /\ s.traffic_campaign = OrDefault(s.utm_campaign_lp, "(not set)")
        /\ s.traffic_source_type = "referrer" =>
              /\ s.traffic_source = s.ref_source
              /\ s.traffic_medium = s.ref_medium
              /\ s.traffic_campaign = "(not set)"

\* C3: a session whose sourceType is direct has exactly the sentinel verdict
\* source "(direct)", medium "(none)", campaign "(not set)".
C3_DirectIsSentinel ==
    \A s \in sessions :
        s.traffic_source_type = "direct" =>
            /\ s.traffic_source = "(direct)"
            /\ s.traffic_medium = "(none)"
            /\ s.traffic_campaign = "(not set)"

\* the purchase events the last query has to report
ReportablePurchases ==
    { e \in events : /\ e.event_name = "purchase"
                     /\ e.transaction_id # NULL
                     /\ InWindow(e, qwindow[1], qwindow[2]) }

IsRowOf(r, e) ==
    /\ r.transactionId = e.transaction_id
    /\ r.userPseudoId = e.user_pseudo_id
    /\ r.gaSessionId = e.ga_session_id
    /\ r.purchaseTimestamp = e.event_timestamp

MatchesNoSession(r) ==
    ~\E s \in sessions : r.sessionKey # NULL /\ s.session_key # NULL /\ s.session_key = r.sessionKey

SessionFieldsNull(r) ==
    /\ r.sessionStartTime = NullInt /\ r.sessionEndTime = NullInt
    /\ r.sessionPageviewsCount = NullInt /\ r.sessionEventsCount = NullInt
    /\ r.sessionTransactionsCount = NullInt
    /\ r.sessionConversionFlag = NULL
    /\ r.sessionEngagementTimeMsec = NullInt
    /\ r.sessionIsEngaged = NULL /\ r.sessionBounceLike = NULL
    /\ r.sessionLandingUrl = NULL /\ r.sessionLandingTitle = NULL /\ r.sessionExitUrl = NULL
    /\ r.sessionUtmSourceStart = NULL /\ r.sessionUtmMediumStart = NULL
    /\ r.sessionUtmCampaignStart = NULL
    /\ r.sessionUtmSourceLanding = NULL /\ r.sessionUtmMediumLanding = NULL
    /\ r.sessionUtmCampaignLanding = NULL
    /\ r.sessionRefSource = NULL /\ r.sessionRefMedium = NULL
    /\ r.sessionTrafficSourceType = NULL /\ r.sessionTrafficSource = NULL
    /\ r.sessionTrafficMedium = NULL /\ r.sessionTrafficCampaign = NULL

\* C4: the query returns exactly one record for every purchase event of the window
\* that has a transaction id, and no other record; a record whose purchase matches
\* no session has every session field NULL.
C4_LeftJoinKeepsEveryPurchaseOnce ==
    qwindow # NoQuery =>
        /\ Len(rows) = Cardinality(ReportablePurchases)
        /\ \A e \in ReportablePurchases :
              Cardinality({ i \in 1..Len(rows) : IsRowOf(rows[i], e) }) = 1
        /\ \A i \in 1..Len(rows) : MatchesNoSession(rows[i]) => SessionFieldsNull(rows[i])

\* a query that dropped a purchase without transaction id, and returned a purchase
\* that no session matches next to one that a session matches
C4_Witness ==
    /\ qwindow # NoQuery
    /\ \E e \in events : e.event_name = "purchase" /\ e.transaction_id = NULL
    /\ \E i \in 1..Len(rows) : MatchesNoSession(rows[i])

\* the page_view events of a session row's group
PageViewsOf(s) == { e \in SessionEvents(s) : e.event_name = "page_view" }

EngagedSession(s) ==
    SumEngagement(SessionEvents(s)) >= 10000 \/ Cardinality(PageViewsOf(s)) >= 2

\* C18: every session is engaged exactly when its engagement time sums to 10000 ms
\* or more or it has two or more page views, and bounce-like exactly when it has one
\* page view and is not engaged; no session is both.
C18_EngagedAndBounceLike ==
    /\ \A s \in KeyedSessions :
           /\ s.is_engaged_session = SqlBool(EngagedSession(s))
           /\ s.bounce_like = SqlBool(Cardinality(PageViewsOf(s)) = 1 /\ ~EngagedSession(s))
    /\ \A s \in sessions : ~(s.bounce_like = "true" /\ s.is_engaged_session = "true")

\* a session of one page view whose engagement time sums to exactly 10000 ms,
\* engaged and not bounce-like
C18_Witness ==
    \E s \in KeyedSessions :
        /\ Cardinality(PageViewsOf(s)) = 1
        /\ Cardinality(SessionEvents(s)) = 2
        /\ s.engagement_time_msec_sum = 10000
        /\ s.is_engaged_session = "true"
        /\ s.bounce_like = "false"

\* the (visitorId, sessionId) pairs observed in the last query's window
ObservedPairs ==
    { <<e.user_pseudo_id, e.ga_session_id>> :
        e \in { x \in events_base(qwindow[1], qwindow[2]) :
                  x.user_pseudo_id # NULL /\ x.ga_session_id # NullInt } }

\* C19: the query's session table holds exactly one session for every distinct
\* (visitorId, sessionId) pair observed in the window; a session starts at the
\* earliest and ends at the latest timestamp of its events, so end >= start, and
\* counts one event at least.
C19_OneSessionPerPair ==
    qwindow # NoQuery =>
        /\ \A pair \in ObservedPairs :
               Cardinality({ s \in sessions : /\ s.user_pseudo_id = pair[1]
                                              /\ s.ga_session_id = pair[2] }) = 1
        /\ \A s \in KeyedSessions :
               /\ <<s.user_pseudo_id, s.ga_session_id>> \in ObservedPairs
               /\ \A e \in SessionEvents(s) :
                      s.session_start_ts <= e.event_timestamp
                          /\ e.event_timestamp <= s.session_end_ts
               /\ \E e \in SessionEvents(s) : e.event_timestamp = s.session_start_ts
               /\ \E e \in SessionEvents(s) : e.event_timestamp = s.session_end_ts
               /\ s.events_count = Cardinality(SessionEvents(s))
               /\ s.events_count >= 1
        /\ \A s \in sessions : s.session_end_ts >= s.session_start_ts

\* a window with two sessions of one visitor
C19_Witness ==
    /\ qwindow # NoQuery
    /\ Cardinality(ObservedPairs) = 2
    /\ Cardinality(KeyedSessions) = 2
    /\ \E s \in KeyedSessions : s.ga_session_id = 2 /\ s.events_count = 1

KeyFieldsPresent(r) == r.userPseudoId # NULL /\ r.gaSessionId # NullInt

\* C20 as stated: every record the query returns carries a non-NULL session key,
\* equal to visitorId + "." + sessionId of the purchase event.
C20_SessionKeyAlwaysPresent ==
    \A i \in 1..Len(rows) :
        /\ rows[i].sessionKey # NULL
        /\ KeyFieldsPresent(rows[i])
        /\ rows[i].sessionKey
               = rows[i].userPseudoId \o "." \o IntToString(rows[i].gaSessionId)

\* C20 amended: a record's session key is visitorId + "." + sessionId of the purchase
\* event when the event carries both, and NULL, with no session joined, when it
\* lacks one of them; the transaction id is the field every record carries.
C20_SessionKeyWhenFieldsPresent ==
    \A i \in 1..Len(rows) :
        /\ rows[i].transactionId # NULL
        /\ \E e \in ReportablePurchases : IsRowOf(rows[i], e)
        /\ IF KeyFieldsPresent(rows[i])
           THEN rows[i].sessionKey
                    = rows[i].userPseudoId \o "." \o IntToString(rows[i].gaSessionId)
           ELSE rows[i].sessionKey = NULL /\ SessionFieldsNull(rows[i])

\* a response with a purchase of session 1 and a purchase without session id, while
\* the table holds events without session id
C20_Witness ==
    /\ Len(rows) = 2
    /\ \E i \in 1..2 : rows[i].sessionKey = "u1.1" /\ rows[i].sessionEventsCount = 1
    /\ \E i \in 1..2 : rows[i].sessionKey = NULL /\ rows[i].gaSessionId = NullInt
    /\ \E s \in sessions : s.session_key = NULL

\* the host of a referrer is the site's domain or a subdomain of it, in any case
HostInOwnDomain(ref) ==
    LET h == Lower(Coalesce2(UrlHost(ref), ""))
    IN  \/ h = "superalink.com"
        \/ \E i \in 2..Len(h) : SubSeq(h, i, Len(h)) = ".superalink.com"

OwnDomainReferrersOf(s) ==
    { e.page_referrer : e \in { x \in PageViewsOf(s) : /\ x.page_referrer \notin {NULL, ""}
                                                        /\ HostInOwnDomain(x.page_referrer) } }

OnlyOwnDomainReferrers(s) ==
    \A e \in PageViewsOf(s) : e.page_referrer \in {NULL, ""} \/ HostInOwnDomain(e.page_referrer)

\* C21: a page_view referrer whose host is the site's own domain or a subdomain of it
\* counts as no referrer: a session without session_start source/medium, without
\* landing-URL utm_source/utm_medium and with own-domain referrers only is direct,
\* and the host of an own-domain referrer is never the source of a verdict.
C21_OwnDomainReferrerIgnored ==
    \A s \in KeyedSessions :
        /\ (/\ ~StartCarriesSourceOrMedium(s)
            /\ ~LandingCarriesUtm(s)
            /\ OnlyOwnDomainReferrers(s)) => /\ s.traffic_source_type = "direct"
                                             /\ s.ref_source = NULL
                                             /\ s.traffic_source = "(direct)"
        /\ \A ref \in OwnDomainReferrersOf(s) :
              /\ s.ref_source # Lower(UrlHost(ref))
              /\ s.traffic_source # Lower(UrlHost(ref))

\* a direct session whose only referrer is a subdomain of the site, written in
\* mixed case
C21_Witness ==
    /\ \E s \in KeyedSessions :
          /\ OwnDomainReferrersOf(s) = { "https://Shop.Superalink.com/c" }
          /\ OnlyOwnDomainReferrers(s)
          /\ s.traffic_source_type = "direct"

\* the external, non-empty page_view referrers of a session that are first in time
FirstExternalReferrers(s) ==
    LET ext == { e \in PageViewsOf(s) : /\ e.page_referrer \notin {NULL, ""}
                                        /\ ~HostInOwnDomain(e.page_referrer) }
    IN  { e.page_referrer :
            e \in { x \in ext : \A y \in ext : x.event_timestamp <= y.event_timestamp } }

\* the host of a referrer: what stands between "://" and the next "/" or ":"
ReferrerHost(ref) ==
    LET l == Lower(ref)
        at == CHOOSE i \in 1..Len(l) : MatchAt(l, "://", i) /\ \A j \in 1..(i - 1) : ~MatchAt(l, "://", j)
    IN  SubSeq(l, at + 3, RunEnd(l, {"/", ":"}, at + 3))

\* <<what the host of a known search engine contains, the engine's name>>
KnownEngines ==
    << <<"google", "google">>, <<"bing", "bing">>, <<"search.yahoo", "yahoo">>,
       <<"duckduckgo", "duckduckgo">>, <<"baidu", "baidu">>, <<"yandex", "yandex">> >>

HostContains(h, sub) == \E i \in 1..Len(h) : MatchAt(h, sub, i)

EnginesOfHost(h) == { k \in 1..Len(KnownEngines) : HostContains(h, KnownEngines[k][1]) }

InReferrerTier(s) ==
    /\ ~StartCarriesSourceOrMedium(s)
    /\ ~LandingCarriesUtm(s)
    /\ FirstExternalReferrers(s) # {}

\* C22: in the referrer tier the first external referrer is classified by its host:
\* a host that contains the name of a known search engine gives medium organic and
\* source the engine's name, every other referrer gives medium referral and source
\* the referrer's host.
C22_ReferrerClassifiedByHost ==
    \A s \in KeyedSessions :
        InReferrerTier(s) =>
            \E ref \in FirstExternalReferrers(s) :
                LET h == ReferrerHost(ref)
                IN  IF EnginesOfHost(h) # {}
                    THEN /\ s.traffic_medium = "organic"
                         /\ \E k \in EnginesOfHost(h) : s.traffic_source = KnownEngines[k][2]
                    ELSE /\ s.traffic_medium = "referral"
                         /\ s.traffic_source = h

\* the page views of a session that no page view of the session precedes / follows
EarliestPageViews(s) ==
    { e \in PageViewsOf(s) : \A o \in PageViewsOf(s) : e.event_timestamp <= o.event_timestamp }

LatestPageViews(s) ==
    { e \in PageViewsOf(s) : \A o \in PageViewsOf(s) : e.event_timestamp >= o.event_timestamp }

\* C26: a session's landing URL and landing title are both those of one event, a
\* page_view of the session with minimum timestamp, and its exit URL is that of a
\* page_view with maximum timestamp; a session without page_view has NULL landing
\* and exit fields.
C26_LandingFromEarliestPageView ==
    \A s \in KeyedSessions :
        IF PageViewsOf(s) = {}
        THEN s.landing_url = NULL /\ s.landing_title = NULL /\ s.exit_url = NULL
        ELSE /\ \E e \in EarliestPageViews(s) :
                    s.landing_url = e.page_location /\ s.landing_title = e.page_title
             /\ \E e \in LatestPageViews(s) : s.exit_url = e.page_location

\* the sessions of the last query that carry the session key of the record r
JoinedSessionsOf(r) ==
    { s \in sessions : s.session_key # NULL /\ s.session_key = r.sessionKey }

\* the purchase of the record r is one of the events the session s was built from
HoldsPurchaseOf(s, r) ==
    \E e \in SessionEvents(s) :
        /\ e.event_name = "purchase"
        /\ e.transaction_id = r.transactionId
        /\ e.event_timestamp = r.purchaseTimestamp

\* C28: every output record whose purchase has a visitor identifier and a session
\* identifier is joined to exactly one session, built from the events of the same
\* date window, and that session contains the purchase: sessionStart <=
\* purchaseTimestamp <= sessionEnd, sessionEventsCount >= 1,
\* sessionTransactionsCount >= 1 and sessionConversionFlag is true.
C28_JoinedSessionContainsPurchase ==
    \A k \in 1..Len(rows) :
        LET r == rows[k]
        IN  (r.userPseudoId # NULL /\ r.gaSessionId # NullInt) =>
                /\ Cardinality(JoinedSessionsOf(r)) = 1
                /\ \A s \in JoinedSessionsOf(r) :
                       /\ HoldsPurchaseOf(s, r)
                       /\ r.sessionStartTime = s.session_start_ts
                       /\ r.sessionEndTime = s.session_end_ts
                       /\ r.sessionEventsCount = s.events_count
                       /\ r.sessionTransactionsCount = s.transactions_count
                /\ r.sessionStartTime # NullInt
                /\ r.sessionStartTime <= r.purchaseTimestamp
                /\ r.purchaseTimestamp <= r.sessionEndTime
                /\ r.sessionEventsCount >= 1
                /\ r.sessionTransactionsCount >= 1
                /\ r.sessionConversionFlag = "true"

\* a query for one day whose only record is a purchase of a session that began the
\* day before: the joined session starts at the purchase and counts one event
C28_Witness ==
    /\ qwindow = <<1, 1>>
    /\ Len(rows) = 1
    /\ rows[1].gaSessionId = 1
    /\ \E e \in events :
           /\ e.ga_session_id = 1
           /\ e.event_name = "page_view"
           /\ e.event_timestamp < rows[1].purchaseTimestamp
    /\ rows[1].sessionStartTime = rows[1].purchaseTimestamp
    /\ rows[1].sessionEventsCount = 1
    /\ rows[1].sessionConversionFlag = "true"

-----------------------------------------------------------------------------
(* Pagination: fetchPurchaseSessions and the multi-page loop of            *)
(* bigqueryPurchaseSessionsTool.execute.  The source is the ordered result *)
(* of the query for the request's window; its rows are numbered 1..n.      *)

MAX_ROWS == 5000

DEFAULT_LIMIT == 500

DEFAULT_PAGE == 1

MaxLimit == 10

MaxPage == 2

MaxPageSize == 3

MaxSourceRows == 6

Min2(a, b) == IF a <= b THEN a ELSE b

\* an option that is undefined (or not a positive number) is given as 0
effectivePageSize(pageSize) == IF pageSize > 0 THEN Min2(pageSize, MAX_ROWS) ELSE DEFAULT_LIMIT

effectivePage(page) == IF page > 0 THEN page ELSE DEFAULT_PAGE

effectiveLimitDefaultLimit(limit, pageSize) ==
    IF limit > 0 THEN Min2(limit, MAX_ROWS) ELSE DEFAULT_LIMIT

effectiveLimit(limit, pageSize) ==
    IF limit > 0 THEN Min2(limit, MAX_ROWS) ELSE effectivePageSize(pageSize)

offset(page, pageSize) == (effectivePage(page) - 1) * effectivePageSize(pageSize)

\* the rows of src that LIMIT @limit OFFSET @offset keeps
LimitOffset(src, lim, off) == SubSeq(src, off + 1, Min2(off + lim, Len(src)))

fetchPurchaseSessions(src, limit, page, pageSize) ==
    LimitOffset(src, effectiveLimit(limit, pageSize), offset(page, pageSize))

NoSlice(rs, target) == rs

\* rows.slice(0, target)
SliceToTarget(rs, target) == SubSeq(rs, 1, Min2(target, Len(rs)))

PgIdle ==
    [ pc |-> "idle", limit |-> 0, page |-> 0, pageSize |-> 0, fetchAllPages |-> FALSE,
      src |-> <<>>, rows |-> <<>>, currentPage |-> 0, inflight |-> 0, calls |-> <<>>,
      params |-> [ limit |-> 0, offset |-> 0 ],   \* @limit and @offset of the last query job
      truncateStrings |-> TRUE,
      result |-> <<>> ]

InitPages == pg = PgIdle

\* execute is called with a validated context, over a source of n rows
Execute(limit, page, pageSize, fetchAllPages, n) ==
    /\ pg.pc = "idle"
    /\ pg' = [ pg EXCEPT !.pc = IF fetchAllPages THEN "loop" ELSE "single",
                         !.limit = limit, !.page = page, !.pageSize = pageSize,
                         !.fetchAllPages = fetchAllPages,
                         !.src = [ k \in 1..n |-> k ],
                         !.currentPage = page ]
    /\ UNCHANGED <<events, qwindow, sessions, rows, dr, card, wallet, roll, fx>>

\* if (!fetchAllPages) return fetcher({ ..., limit, page, pageSize, ... }): the call
SingleFetch ==
    /\ pg.pc = "single"
    /\ pg' = [ pg EXCEPT !.pc = "single_await", !.inflight = @ + 1 ]
    /\ UNCHANGED <<events, qwindow, sessions, rows, dr, card, wallet, roll, fx>>

\* ... and its answer
SingleReturn ==
    /\ pg.pc = "single_await"
    /\ LET batch == fetchPurchaseSessions(pg.src, pg.limit, pg.page, pg.pageSize)
       IN  pg' = [ pg EXCEPT !.pc = "done", !.inflight = @ - 1,
                             !.calls = Append(@, [page |-> pg.page, returned |-> Len(batch)]),
                             !.result = batch ]
    /\ UNCHANGED <<events, qwindow, sessions, rows, dr, card, wallet, roll, fx>>

\* while (rows.length < target): the test, and the fetch of currentPage it leads to
LoopFetch ==
    /\ pg.pc = "loop"
    /\ Len(pg.rows) < pg.limit
    /\ pg' = [ pg EXCEPT !.pc = "await", !.inflight = @ + 1 ]
    /\ UNCHANGED <<events, qwindow, sessions, rows, dr, card, wallet, roll, fx>>

\* while (rows.length < target): the test fails
LoopExit ==
    /\ pg.pc = "loop"
    /\ ~(Len(pg.rows) < pg.limit)
    /\ pg' = [ pg EXCEPT !.pc = "return" ]
    /\ UNCHANGED <<events, qwindow, sessions, rows, dr, card, wallet, roll, fx>>

\* the awaited batch arrives: the rest of the loop body
ReceiveNoShortPageBreak ==
    /\ pg.pc = "await"
    /\ LET batch == fetchPurchaseSessions(pg.src, pg.pageSize, pg.currentPage, pg.pageSize)
           log == Append(pg.calls, [page |-> pg.currentPage, returned |-> Len(batch)])
       IN  IF Len(batch) = 0
           THEN pg' = [ pg EXCEPT !.pc = "return", !.inflight = @ - 1, !.calls = log ]
           ELSE pg' = [ pg EXCEPT !.pc = "loop", !.inflight = @ - 1, !.calls = log,
                                  !.rows = @ \o batch, !.currentPage = @ + 1 ]
    /\ UNCHANGED <<events, qwindow, sessions, rows, dr, card, wallet, roll, fx>>

Receive ==
    /\ pg.pc = "await"
    /\ LET batch == fetchPurchaseSessions(pg.src, pg.pageSize, pg.currentPage, pg.pageSize)
           log == Append(pg.calls, [page |-> pg.currentPage, returned |-> Len(batch)])
       IN  IF Len(batch) = 0
           THEN pg' = [ pg EXCEPT !.pc = "return", !.inflight = @ - 1, !.calls = log ]
           ELSE IF Len(batch) < pg.pageSize
           THEN pg' = [ pg EXCEPT !.pc = "return", !.inflight = @ - 1, !.calls = log,
                                  !.rows = @ \o batch ]
           ELSE pg' = [ pg EXCEPT !.pc = "loop", !.inflight = @ - 1, !.calls = log,
                                  !.rows = @ \o batch, !.currentPage = @ + 1 ]
    /\ UNCHANGED <<events, qwindow, sessions, rows, dr, card, wallet, roll, fx>>

\* the awaited query fails: the rejection leaves execute
FetchFails ==
    /\ pg.pc \in {"await", "single_await"}
    /\ pg' = [ pg EXCEPT !.pc = "failed", !.inflight = @ - 1 ]
    /\ UNCHANGED <<events, qwindow, sessions, rows, dr, card, wallet, roll, fx>>

\* return rows.slice(0, target)
Return ==
    /\ pg.pc = "return"
    /\ pg' = [ pg EXCEPT !.pc = "done", !.result = SliceToTarget(pg.rows, pg.limit) ]
    /\ UNCHANGED <<events, qwindow, sessions, rows, dr, card, wallet, roll, fx>>

NextPages ==
    \/ \E limit \in 1..MaxLimit, page \in 1..MaxPage, pageSize \in 1..MaxPageSize,
          fetchAllPages \in BOOLEAN, n \in 0..MaxSourceRows :
          Execute(limit, page, pageSize, fetchAllPages, n)
    \/ SingleFetch
    \/ SingleReturn
    \/ LoopFetch
    \/ LoopExit
    \/ Receive
    \/ FetchFails
    \/ Return

\* the options fetchPurchaseSessions may be called with; 0 is an omitted option
FetchLimits == { 0, 2, 5000, 6000 }

FetchPages == { 0, 1, 2 }

FetchPageSizes == { 0, 2, 6000 }

FetchTruncateStrings == { TRUE, FALSE }

\* "1234567890" n times over
RECURSIVE Repeated(_)
Repeated(n) ==
    IF n = 0 THEN ""
    ELSE LET half == Repeated(n \div 2)
         IN  IF n % 2 = 0 THEN half \o half ELSE half \o half \o "1234567890"

\* the first n characters of 1234567890 repeated
TextOfLength(n) == SubSeq(Repeated((n \div 10) + 1), 1, n)

\* the lengths of the landing URLs the query's rows carry, row after row
UrlLengths == <<200, 201, 0, 250, 197, 1, 199, 202>>

\* row k of the query's ordered result; every third row has no session joined
SourceRow(k) ==
    [ transactionId |-> "T" \o IntToString(k),
      gaSessionId |-> k,
      sessionLandingUrl |-> IF k % 3 = 0 THEN NULL
                            ELSE TextOfLength(UrlLengths[((k - 1) % Len(UrlLengths)) + 1]) ]

slice200(value, truncateStrings) ==
    IF value = NULL THEN NULL
    ELSE IF ~truncateStrings THEN value
    ELSE IF Len(value) > 200 THEN SubSeq(value, 1, 200) \o "..." ELSE value

\* maybeTrimString, of a value that is null or a string
maybeTrimString(value, truncateStrings) ==
    IF value = NULL THEN NULL
    ELSE IF ~truncateStrings THEN value
    ELSE IF Len(value) > 200 THEN SubSeq(value, 1, 197) \o "..." ELSE value

\* toNumber, of a value that is null or a finite number
toNumber(value) == value

\* rows.map((row) => ({ ... }))
MapRows(rs, truncateStrings) ==
    [ i \in 1..Len(rs) |->
        [ transactionId |-> maybeTrimString(rs[i].transactionId, truncateStrings),
          gaSessionId |-> toNumber(rs[i].gaSessionId),
          sessionLandingUrl |-> maybeTrimString(rs[i].sessionLandingUrl, truncateStrings) ] ]

\* fetchPurchaseSessions is called over a source of n rows: the clauses and params
\* are built and the query job is created
CallFetch(limit, page, pageSize, truncateStrings, n) ==
    /\ pg.pc = "idle"
    /\ pg' = [ pg EXCEPT !.pc = "job",
                         !.limit = limit, !.page = page, !.pageSize = pageSize,
                         !.truncateStrings = truncateStrings,
                         !.src = [ k \in 1..n |-> SourceRow(k) ],
                         !.params = [ limit |-> effectiveLimit(limit, pageSize),
                                      offset |-> offset(page, pageSize) ],
                         !.inflight = @ + 1 ]
    /\ UNCHANGED <<events, qwindow, sessions, rows, dr, card, wallet, roll, fx>>

\* job.getQueryResults() answers: the rows are mapped and returned
FetchReturns ==
    /\ pg.pc = "job"
    /\ pg' = [ pg EXCEPT !.pc = "fetched", !.inflight = @ - 1,
                         !.result = MapRows(LimitOffset(pg.src, pg.params.limit,
                                                        pg.params.offset),
                                            pg.truncateStrings) ]
    /\ UNCHANGED <<events, qwindow, sessions, rows, dr, card, wallet, roll, fx>>

\* the query job is rejected
FetchRejects ==
    /\ pg.pc = "job"
    /\ pg' = [ pg EXCEPT !.pc = "failed", !.inflight = @ - 1 ]
    /\ UNCHANGED <<events, qwindow, sessions, rows, dr, card, wallet, roll, fx>>

NextFetch ==
    \/ \E limit \in FetchLimits, page \in FetchPages, pageSize \in FetchPageSizes,
          truncateStrings \in FetchTruncateStrings, n \in 0..MaxSourceRows :
          CallFetch(limit, page, pageSize, truncateStrings, n)
    \/ FetchReturns
    \/ FetchRejects

-----------------------------------------------------------------------------
(* Claims about pagination (SpecPages, SpecPagesFair).                     *)

RequestOffset == (pg.page - 1) * pg.pageSize

\* the number of source rows at or after the request's offset
RowsFromOffset == IF Len(pg.src) > RequestOffset THEN Len(pg.src) - RequestOffset ELSE 0

RECURSIVE ReturnedUpTo(_)
ReturnedUpTo(k) == IF k = 0 THEN 0 ELSE ReturnedUpTo(k - 1) + pg.calls[k].returned

\* the k-th fetch is one after which the loop has to end
EndsLoop(k) == pg.calls[k].returned < pg.pageSize \/ ReturnedUpTo(k) >= pg.limit

C6_Sequential ==
    pg.fetchAllPages =>
        /\ pg.inflight <= 1
        /\ pg.inflight = 1 <=> pg.pc = "await"
        /\ \A k \in 1..Len(pg.calls) : pg.calls[k].page = pg.page + k - 1
        /\ \A k \in 1..Len(pg.calls) :
              EndsLoop(k) => k = Len(pg.calls) /\ pg.pc # "await"
        /\ pg.pc \in {"return", "done"} => Len(pg.calls) >= 1 /\ EndsLoop(Len(pg.calls))
        /\ (Len(pg.calls) + pg.inflight - 1) * pg.pageSize < pg.limit

C6_Example ==
    ( /\ pg.pc = "done" /\ pg.fetchAllPages
      /\ pg.pageSize = 2 /\ Len(pg.src) = 3 /\ pg.limit = 10 /\ pg.page = 1 ) =>
        /\ pg.calls = << [page |-> 1, returned |-> 2], [page |-> 2, returned |-> 1] >>
        /\ Len(pg.result) = 3

\* C6: the loop fetches pages page, page+1, ... one at a time, ends right after the
\* first fetch that is short (or empty) or that brings the row count to limit, makes
\* at most ceil(limit/pageSize) fetches and always terminates; pageSize 2, 3 rows and
\* limit 10 make two fetches (2 rows, 1 row) and 3 result rows.
C6_LoopIsSequentialAndTerminates ==
    /\ [](C6_Sequential /\ C6_Example)
    /\ (pg.pc # "idle") ~> (pg.pc \in {"done", "failed"})

\* the example request, finished after its two fetches
C6_Witness ==
    /\ pg.pc = "done" /\ pg.fetchAllPages
    /\ pg.pageSize = 2 /\ Len(pg.src) = 3 /\ pg.limit = 10 /\ pg.page = 1
    /\ Len(pg.calls) = 2

\* an option as the claim reads it: the value given, or the default when omitted
OrDefaultOption(option, default) == IF option > 0 THEN option ELSE default

\* C24 as stated: the single query uses LIMIT min(limit, 5000) with limit 500 when
\* omitted, and OFFSET (page - 1) * min(pageSize, 5000) with pageSize 500 and page 1
\* when omitted; it returns no more rows than the limit.
C24_LimitDefaultsTo500 ==
    pg.pc = "fetched" =>
        /\ pg.params.limit = Min2(OrDefaultOption(pg.limit, 500), 5000)
        /\ pg.params.offset
               = (OrDefaultOption(pg.page, 1) - 1) * Min2(OrDefaultOption(pg.pageSize, 500), 5000)
        /\ Len(pg.result) <= pg.params.limit

\* C24 amended: as stated, except that an omitted limit defaults to the effective
\* page size, min(pageSize, 5000), which is 500 only when pageSize is omitted too;
\* the rows returned are the source rows that follow the offset, at most LIMIT of
\* them.
C24_LimitDefaultsToPageSize ==
    pg.pc = "fetched" =>
        LET size == Min2(OrDefaultOption(pg.pageSize, 500), 5000)
            off == (OrDefaultOption(pg.page, 1) - 1) * size
        IN  /\ pg.params.limit = Min2(OrDefaultOption(pg.limit, size), 5000)
            /\ pg.params.offset = off
            /\ Len(pg.result) <= pg.params.limit
            /\ Len(pg.result) <= Len(pg.src)
            /\ \A k \in 1..Len(pg.result) : pg.result[k].gaSessionId = off + k
            /\ Len(pg.result) < pg.params.limit => off + Len(pg.result) >= Len(pg.src)

\* page 2 fetched without a limit and with pageSize 2: LIMIT 2 OFFSET 2, two of six
\* rows returned
C24_Witness ==
    /\ pg.pc = "fetched"
    /\ pg.limit = 0 /\ pg.page = 2 /\ pg.pageSize = 2
    /\ pg.params = [ limit |-> 2, offset |-> 2 ]
    /\ Len(pg.result) = 2
    /\ pg.result[1].transactionId = "T3" /\ pg.result[2].transactionId = "T4"

StringFields == { "transactionId", "sessionLandingUrl" }

\* the row of the source that the k-th returned record was made from
SourceOf(k) == pg.src[pg.params.offset + k]

\* C25: with truncateStrings enabled every string field of every returned record has
\* at most 200 characters: a source string of more than 200 characters is returned
\* as its first 197 characters followed by "...", 200 characters in all, and a
\* string of 200 characters or fewer as it is; with truncateStrings disabled every
\* string is returned as it is.
C25_StringsClippedTo200 ==
    pg.pc = "fetched" =>
        \A k \in 1..Len(pg.result) : \A f \in StringFields :
            LET given == SourceOf(k)[f]
                out == pg.result[k][f]
            IN  IF given = NULL THEN out = NULL
                ELSE IF ~pg.truncateStrings THEN out = given
                ELSE /\ Len(out) <= 200
                     /\ Len(given) <= 200 => out = given
                     /\ Len(given) > 200 =>
                            /\ Len(out) = 200
                            /\ SubSeq(out, 1, 197) = SubSeq(given, 1, 197)
                            /\ SubSeq(out, 198, 200) = "..."

\* a truncating fetch that returned a URL of 200 characters as it was and cut URLs
\* of 201 and of 250 characters
C25_Witness ==
    /\ pg.pc = "fetched"
    /\ pg.truncateStrings
    /\ Len(pg.result) >= 4
    /\ \E k \in 1..Len(pg.result) :
           Len(SourceOf(k).sessionLandingUrl) = 200 /\ Len(pg.result[k].sessionLandingUrl) = 200
    /\ \E k \in 1..Len(pg.result) :
           Len(SourceOf(k).sessionLandingUrl) = 201 /\ Len(pg.result[k].sessionLandingUrl) = 200
    /\ \E k \in 1..Len(pg.result) :
           Len(SourceOf(k).sessionLandingUrl) = 250 /\ Len(pg.result[k].sessionLandingUrl) = 200

-----------------------------------------------------------------------------
(* Calendar dates.  A Date is held as its day number (days since            *)
(* 1970-01-01, UTC); the reference time is in hours since the epoch.        *)

IsDigit(c) == \E k \in 1..Len(Digits) : CharAt(Digits, k) = c

DigitValue(c) == (CHOOSE k \in 1..Len(Digits) : CharAt(Digits, k) = c) - 1

RECURSIVE ToNumber(_)
ToNumber(s) ==
    IF Len(s) = 0 THEN 0
    ELSE 10 * ToNumber(SubSeq(s, 1, Len(s) - 1)) + DigitValue(CharAt(s, Len(s)))

\* /^\d{4}-\d{2}-\d{2}$/
ISO_DATE_REGEX(value) ==
    /\ Len(value) = 10
    /\ \A k \in {1, 2, 3, 4, 6, 7, 9, 10} : IsDigit(CharAt(value, k))
    /\ CharAt(value, 5) = "-" /\ CharAt(value, 8) = "-"

YearOf(value) == ToNumber(SubSeq(value, 1, 4))

MonthOf(value) == ToNumber(SubSeq(value, 6, 7))

DayOf(value) == ToNumber(SubSeq(value, 9, 10))

\* the day number of year-month-day (month in 1..12, year >= 1970); a day past the
\* end of the month counts on into the following months, as MakeDay does
DayNumber(year, month, day) ==
    LET y == IF month <= 2 THEN year - 1 ELSE year
        era == y \div 400
        yoe == y - era * 400
        mp == IF month > 2 THEN month - 3 ELSE month + 9
        doy == (153 * mp + 2) \div 5
        doe == yoe * 365 + yoe \div 4 - yoe \div 100 + doy
    IN  era * 146097 + doe - 719468 + (day - 1)

\* <<year, month, day>> of a day number
CivilOf(dayNumber) ==
    LET z == dayNumber + 719468
        era == z \div 146097
        doe == z - era * 146097
        yoe == (doe - doe \div 1460 + doe \div 36524 - doe \div 146096) \div 365
        doy == doe - (365 * yoe + yoe \div 4 - yoe \div 100)
        mp == (5 * doy + 2) \div 153
        d == doy - (153 * mp + 2) \div 5 + 1
        m == IF mp < 10 THEN mp + 3 ELSE mp - 9
        y == yoe + era * 400 + (IF m <= 2 THEN 1 ELSE 0)
    IN  <<y, m, d>>

\* Date.parse(`${value}T00:00:00.000Z`) of a value that matches ISO_DATE_REGEX, as a
\* day number: NaN unless the month is 01..12 and the day 01..31
DateParse(value) ==
    IF MonthOf(value) \in 1..12 /\ DayOf(value) \in 1..31
    THEN [nan |-> FALSE, day |-> DayNumber(YearOf(value), MonthOf(value), DayOf(value))]
    ELSE [nan |-> TRUE, day |-> 0]

\* String(n).padStart(width, '0')
RECURSIVE PadStart(_, _)
PadStart(str, width) == IF Len(str) >= width THEN str ELSE PadStart("0" \o str, width)

\* date.toISOString().slice(0, 10)
formatISODate(date) ==
    LET c == CivilOf(date)
    IN  PadStart(IntToString(c[1]), 4) \o "-" \o PadStart(IntToString(c[2]), 2)
            \o "-" \o PadStart(IntToString(c[3]), 2)

-----------------------------------------------------------------------------
(* computeDateRange.  A thrown Error is the result [ok |-> FALSE].         *)

Undefined == "<undefined>"

\* a string option is taken as given when it is neither undefined nor empty
Truthy(str) == str # Undefined /\ str # ""

Throw(msg) == [ok |-> FALSE, error |-> msg, startDate |-> "", endDate |-> ""]

Range(start, end) ==
    [ok |-> TRUE, error |-> "", startDate |-> formatISODate(start), endDate |-> formatISODate(end)]

\* parseISODate: the Date, or the Error thrown
parseISODate(value, field) ==
    IF ~ISO_DATE_REGEX(value)
    THEN [ok |-> FALSE, date |-> 0, error |-> "Invalid " \o field \o ". Expected format YYYY-MM-DD, received: " \o value]
    ELSE IF DateParse(value).nan
    THEN [ok |-> FALSE, date |-> 0, error |-> "Invalid " \o field \o ". Unable to parse date: " \o value]
    ELSE [ok |-> TRUE, date |-> DateParse(value).day, error |-> ""]

addDays(date, days) == date + days

ChronologyStrict(start, end) == end <= start

\* the condition under which ensureChronology throws
ChronologyViolated(start, end) == end < start

\* the condition under which ensureNotFuture throws
InFuture(date, today) == date > today

RoundToNearestUTCDate(date) == (date + HoursPerDay \div 2) \div HoursPerDay

\* startOfUTCDate of a time in hours since the epoch, as a day number
startOfUTCDate(date) == date \div HoursPerDay

NoClamp(tentativeEnd, todayStart) == tentativeEnd

\* tentativeEnd > todayStart ? todayStart : tentativeEnd
ClampToToday(tentativeEnd, todayStart) ==
    IF tentativeEnd > todayStart THEN todayStart ELSE tentativeEnd

BothGiven(start, end, todayStart) ==
    IF ~start.ok THEN Throw(start.error)
    ELSE IF ~end.ok THEN Throw(end.error)
    ELSE IF ChronologyViolated(start.date, end.date)
    THEN Throw("endDate must be on or after startDate.")
    ELSE IF InFuture(start.date, todayStart) THEN Throw("startDate cannot be in the future.")
    ELSE IF InFuture(end.date, todayStart) THEN Throw("endDate cannot be in the future.")
    ELSE Range(start.date, end.date)

OnlyStartGiven(start, todayStart) ==
    IF ~start.ok THEN Throw(start.error)
    ELSE IF InFuture(start.date, todayStart) THEN Throw("startDate cannot be in the future.")
    ELSE LET end == ClampToToday(addDays(start.date, 6), todayStart)
         IN  IF ChronologyViolated(start.date, end)
             THEN Throw("endDate must be on or after startDate.")
             ELSE Range(start.date, end)

OnlyEndGiven(end, todayStart) ==
    IF ~end.ok THEN Throw(end.error)
    ELSE IF InFuture(end.date, todayStart) THEN Throw("endDate cannot be in the future.")
    ELSE Range(addDays(end.date, -6), end.date)

computeDateRange(startDate, endDate, today) ==
    LET todayStart == startOfUTCDate(today)
    IN  IF Truthy(startDate) /\ Truthy(endDate)
        THEN BothGiven(parseISODate(startDate, "startDate"), parseISODate(endDate, "endDate"),
                       todayStart)
        ELSE IF Truthy(startDate) /\ ~Truthy(endDate)
        THEN OnlyStartGiven(parseISODate(startDate, "startDate"), todayStart)
        ELSE IF ~Truthy(startDate) /\ Truthy(endDate)
        THEN OnlyEndGiven(parseISODate(endDate, "endDate"), todayStart)
        ELSE Range(addDays(todayStart, -6), todayStart)

\* the dates a caller passes
DateInputs ==
    { Undefined, "", "2024-06-01", "2024-06-04", "2024-06-07", "2024-06-10", "2024-06-11",
      "2024-02-28", "2024-02-30", "2024-02-31", "2024-03-01", "2024-05-32", "2024-13-01",
      "2024-6-1", "yesterday" }

\* the reference times: <<date, hour of the day>>
ReferenceTimes == { <<"2024-06-10", 0>>, <<"2024-06-10", 15>>, <<"2024-03-03", 23>> }

HoursOf(ref) == DateParse(ref[1]).day * HoursPerDay + ref[2]

DrIdle ==
    [ pc |-> "idle", startDate |-> Undefined, endDate |-> Undefined, today |-> 0,
      result |-> Throw("") ]

InitDates == dr = DrIdle

\* the resolve-date-range step: getCurrentIsoTime, then computeDateRange
ResolveDateRange(startDate, endDate, today) ==
    /\ dr.pc = "idle"
    /\ dr' = [ pc |-> "done", startDate |-> startDate, endDate |-> endDate, today |-> today,
               result |-> computeDateRange(startDate, endDate, today) ]
    /\ UNCHANGED <<events, qwindow, sessions, rows, pg, card, wallet, roll, fx>>

NextDates ==
    \E startDate \in DateInputs, endDate \in DateInputs, ref \in ReferenceTimes :
        ResolveDateRange(startDate, endDate, HoursOf(ref))

-----------------------------------------------------------------------------
(* Claims about the date-range resolver.                                    *)

Resolved == dr.pc = "done"

OnlyStartSupplied == Truthy(dr.startDate) /\ ~Truthy(dr.endDate)

\* today: UTC midnight of the reference time, as a day number
TodayOf(now) == CHOOSE d \in 0..(now \div HoursPerDay) : d * HoursPerDay <= now /\ now < (d + 1) * HoursPerDay

IsLeapYear(y) == (y % 4 = 0 /\ y % 100 # 0) \/ y % 400 = 0

DaysInMonth(y, m) ==
    IF m = 2 THEN (IF IsLeapYear(y) THEN 29 ELSE 28)
    ELSE IF m \in {4, 6, 9, 11} THEN 30 ELSE 31

\* a YYYY-MM-DD string that names a day of the calendar
IsCalendarDate(str) ==
    /\ str # Undefined
    /\ ISO_DATE_REGEX(str)
    /\ MonthOf(str) \in 1..12
    /\ DayOf(str) \in 1..DaysInMonth(YearOf(str), MonthOf(str))

\* the order of two YYYY-MM-DD strings as written: year, then month, then day
DateKey(str) == YearOf(str) * 10000 + MonthOf(str) * 100 + DayOf(str)

WrittenAfterToday(str) == DateKey(str) > DateKey(formatISODate(TodayOf(dr.today)))

ExpectedOnlyStartEnd ==
    formatISODate(Min2(DayNumber(YearOf(dr.startDate), MonthOf(dr.startDate), DayOf(dr.startDate)) + 6,
                       TodayOf(dr.today)))

C7_Example ==
    (Resolved /\ dr.startDate = "2024-06-01" /\ ~Truthy(dr.endDate)
        /\ formatISODate(TodayOf(dr.today)) = "2024-06-10")
    => (dr.result.ok /\ dr.result.startDate = "2024-06-01" /\ dr.result.endDate = "2024-06-07")

\* C7 as stated: given only a startDate that matches YYYY-MM-DD and is not written after
\* today, the resolver returns start = startDate and end = min(start + 6 days, today).
C7_OnlyStartWellFormed ==
    /\ (Resolved /\ OnlyStartSupplied /\ ISO_DATE_REGEX(dr.startDate)
            /\ ~WrittenAfterToday(dr.startDate))
        => (dr.result.ok /\ dr.result.startDate = dr.startDate
                /\ dr.result.endDate = ExpectedOnlyStartEnd)
    /\ C7_Example

\* C7, amended: given only a startDate that matches YYYY-MM-DD, names a day of the calendar
\* and is not after today, the resolver returns start = startDate and
\* end = min(start + 6 days, today); with today 2024-06-10, startDate 2024-06-01 gives
\* {2024-06-01, 2024-06-07}.
C7_OnlyStartCalendarDate ==
    /\ (Resolved /\ OnlyStartSupplied /\ IsCalendarDate(dr.startDate)
            /\ ~WrittenAfterToday(dr.startDate))
        => (dr.result.ok /\ dr.result.startDate = dr.startDate
                /\ dr.result.endDate = ExpectedOnlyStartEnd)
    /\ C7_Example

\* only a startDate, three days before today: the end is clamped to today
C7_Witness ==
    /\ Resolved /\ dr.startDate = "2024-06-07" /\ dr.endDate = Undefined
    /\ dr.result.ok /\ dr.result.startDate = "2024-06-07" /\ dr.result.endDate = "2024-06-10"

SixDaysBefore(str) == formatISODate(DayNumber(YearOf(str), MonthOf(str), DayOf(str)) - 6)

Supplied == { d \in {dr.startDate, dr.endDate} : Truthy(d) }

ReturnsConcreteRange ==
    /\ dr.result.ok
    /\ IsCalendarDate(dr.result.startDate) /\ IsCalendarDate(dr.result.endDate)
    /\ DateKey(dr.result.startDate) <= DateKey(dr.result.endDate)

\* C9 as stated: the resolver fails if and only if a supplied date does not match
\* YYYY-MM-DD, or both are supplied and endDate is before startDate, or a supplied date is
\* after today; in every other case it returns a concrete range.
C9_FailsIffAsWritten ==
    LET malformed == \E d \in Supplied : ~ISO_DATE_REGEX(d)
        backwards == /\ Truthy(dr.startDate) /\ Truthy(dr.endDate)
                     /\ DateKey(dr.endDate) < DateKey(dr.startDate)
        future == \E d \in Supplied : WrittenAfterToday(d)
    IN  Resolved =>
            IF malformed \/ (~malformed /\ (backwards \/ future))
            THEN ~dr.result.ok
            ELSE ReturnsConcreteRange

ParsedDay(str) == DateParse(str).day

\* C9, amended: the resolver fails if and only if a supplied (non-empty) date does not match
\* YYYY-MM-DD or matches it but cannot be parsed (month outside 01-12 or day outside 01-31),
\* or both are supplied and endDate, as parsed, is before startDate, or a supplied date, as
\* parsed, is after today; in every other case it returns a concrete range.
C9_FailsIffUnparsedBackwardsOrFuture ==
    LET unparsed == \E d \in Supplied : ~ISO_DATE_REGEX(d) \/ DateParse(d).nan
        backwards == /\ Truthy(dr.startDate) /\ Truthy(dr.endDate)
                     /\ ParsedDay(dr.endDate) < ParsedDay(dr.startDate)
        future == \E d \in Supplied : ParsedDay(d) > TodayOf(dr.today)
    IN  Resolved =>
            IF unparsed \/ (~unparsed /\ (backwards \/ future))
            THEN ~dr.result.ok
            ELSE ReturnsConcreteRange

\* both dates well-formed and past, endDate three days before startDate: the resolver fails
C9_Witness ==
    /\ Resolved /\ dr.startDate = "2024-06-07" /\ dr.endDate = "2024-06-04"
    /\ ~dr.result.ok /\ dr.result.error = "endDate must be on or after startDate."

-----------------------------------------------------------------------------
(* The card ledger: getStripeCharges and the tools built on it.             *)

SecondsPerDay == 86400

StripeLimit == 100

\* Date.UTC(year, monthIndex, day, ...) in whole days: a year 0..99 is taken as 19xx, a
\* month index outside 0..11 and a day outside the month carry over
DateUTC(year, monthIndex, day) ==
    LET fullYear == IF year \in 0..99 THEN 1900 + year ELSE year
    IN  DayNumber(fullYear + monthIndex \div 12, (monthIndex % 12) + 1, day)

\* parseDateToUnix: the first second of startDate, the last second of endDate
parseDateToUnix(date, field) ==
    IF ~ISO_DATE_REGEX(date)
    THEN [ok |-> FALSE, unix |-> 0,
          error |-> "Invalid " \o field \o " supplied. Expected format YYYY-MM-DD, received: "
                        \o date]
    ELSE LET days == DateUTC(YearOf(date), MonthOf(date) - 1, DayOf(date))
         IN  [ok |-> TRUE, error |-> "",
              unix |-> IF field = "startDate" THEN days * SecondsPerDay
                       ELSE days * SecondsPerDay + (SecondsPerDay - 1)]

Charge(id, created, status) == [id |-> id, created |-> created, status |-> status]

MaxCharges == 101

Noon(date) == DateParse(date).day * SecondsPerDay + SecondsPerDay \div 2

\* the charges held by the payment service, newest first
Ledgers ==
    { <<>>,
      << Charge(1, Noon("2024-06-07"), "succeeded"),
         Charge(2, DateParse("2024-06-01").day * SecondsPerDay, "failed"),
         Charge(3, DateParse("2024-06-01").day * SecondsPerDay - 1, "succeeded") >>,
      [ i \in 1..MaxCharges |->
          Charge(i, Noon("2024-06-04") - i, IF i % 2 = 0 THEN "succeeded" ELSE "pending") ] }

LedgerDates == { "2024-05-31", "2024-06-01", "2024-06-07", "2024-6-1" }

CardEntries == { "stripeChargeTool", "stripeChargeSummaryTool", "stripeTopCustomersTool" }

ListFailures == { "missing_credential", "unreachable" }

\* stripe.charges.list(params): the page-th page of the charges created in [gte, lte]
ChargesListPage(ledger, gte, lte, page) ==
    LET InRange(c) == gte <= c.created /\ c.created <= lte
        matching == SelectSeq(ledger, InRange)
        last == Min2(page * StripeLimit, Len(matching))
    IN  [ data |-> SubSeq(matching, (page - 1) * StripeLimit + 1, last),
          has_more |-> last < Len(matching) ]

\* the loop body: charges that did not succeed are skipped
Succeeded(data) == LET Ok(c) == c.status = "succeeded" IN SelectSeq(data, Ok)

CardIdle ==
    [ pc |-> "idle", entry |-> "", startDate |-> "", endDate |-> "", ledger |-> <<>>,
      gte |-> 0, lte |-> 0, page |-> 0, charges |-> <<>>, failure |-> "none",
      error |-> "", outcome |-> [error |-> FALSE, kind |-> "", charges |-> <<>>] ]

InitCard == card = CardIdle

\* a card tool is executed
CallCardLedger(entry, startDate, endDate, ledger) ==
    /\ card.pc = "idle"
    /\ card' = [card EXCEPT !.pc = "try", !.entry = entry, !.startDate = startDate,
                            !.endDate = endDate, !.ledger = ledger]
    /\ UNCHANGED <<events, qwindow, sessions, rows, pg, dr, wallet, roll, fx>>

\* getStripeCharges up to the first request; an Error thrown here is caught, logged and
\* answered with []
ParseRange ==
    /\ card.pc = "try"
    /\ LET startTimestamp == parseDateToUnix(card.startDate, "startDate")
           endTimestamp == parseDateToUnix(card.endDate, "endDate")
           thrown == IF ~startTimestamp.ok THEN startTimestamp.error
                     ELSE IF ~endTimestamp.ok THEN endTimestamp.error
                     ELSE IF endTimestamp.unix < startTimestamp.unix
                     THEN "endDate must be after startDate"
                     ELSE ""
       IN  card' = IF thrown # ""
                   THEN [card EXCEPT !.pc = "returned", !.failure = "invalid_range",
                                     !.error = thrown, !.charges = <<>>]
                   ELSE [card EXCEPT !.pc = "listing", !.gte = startTimestamp.unix,
                                     !.lte = endTimestamp.unix, !.page = 1]
    /\ UNCHANGED <<events, qwindow, sessions, rows, pg, dr, wallet, roll, fx>>

\* one page of the listing arrives and is iterated
ListPage ==
    /\ card.pc = "listing"
    /\ LET response == ChargesListPage(card.ledger, card.gte, card.lte, card.page)
       IN  card' = [card EXCEPT !.charges = @ \o Succeeded(response.data),
                                !.page = @ + 1,
                                !.pc = IF response.has_more THEN "listing" ELSE "returned"]
    /\ UNCHANGED <<events, qwindow, sessions, rows, pg, dr, wallet, roll, fx>>

\* a request of the listing is rejected; the Error is caught, logged and answered with []
ListFails(cause) ==
    /\ card.pc = "listing"
    /\ card' = [card EXCEPT !.pc = "returned", !.failure = cause, !.error = cause,
                            !.charges = <<>>]
    /\ UNCHANGED <<events, qwindow, sessions, rows, pg, dr, wallet, roll, fx>>

\* the tool builds its answer from what getStripeCharges returned
CardToolReturns ==
    /\ card.pc = "returned"
    /\ card' = [card EXCEPT !.pc = "done",
                            !.outcome = [ error |-> FALSE,
                                          kind |-> IF card.entry \in {"stripeChargeTool", "fetchStripeCharges"}
                                                   THEN "charges"
                                                   ELSE IF card.entry = "stripeChargeSummaryTool"
                                                   THEN "summary" ELSE "topCustomers",
                                          charges |-> card.charges ]]
    /\ UNCHANGED <<events, qwindow, sessions, rows, pg, dr, wallet, roll, fx>>

NextCard ==
    \/ \E entry \in CardEntries, startDate \in LedgerDates, endDate \in LedgerDates,
          ledger \in Ledgers : CallCardLedger(entry, startDate, endDate, ledger)
    \/ ParseRange
    \/ ListPage
    \/ \E cause \in ListFailures : ListFails(cause)
    \/ CardToolReturns

\* C10: a failure of the card-ledger fetch (missing credential or unreachable service) ends
\* getStripeCharges and the tools built on it in an error; no charge set is returned in
\* place of the failure.
C10_CardLedgerFailurePropagates ==
    (card.pc = "done" /\ card.failure \in ListFailures) => card.outcome.error

-----------------------------------------------------------------------------
(* The wallet ledger: fetchPaypalCardInfo and its four entry points.        *)
(* An instant is <<day number, millisecond of the day>>.  A decimal amount  *)
(* (a transaction value, a major-unit amount) is held in hundredths.        *)

MsPerDay == 86400000

UpperChar(c) ==
    IF \E k \in 1..Len(LowerAlphabet) : CharAt(LowerAlphabet, k) = c
    THEN CharAt(UpperAlphabet, CHOOSE k \in 1..Len(LowerAlphabet) : CharAt(LowerAlphabet, k) = c)
    ELSE c

RECURSIVE UpperFrom(_, _)
UpperFrom(s, i) ==
    IF i > Len(s) THEN "" ELSE UpperChar(CharAt(s, i)) \o UpperFrom(s, i + 1)

\* s.toUpperCase()
ToUpperCase(s) == UpperFrom(s, 1)

\* s.toLowerCase()
ToLowerCase(s) == LowerFrom(s, 1)

\* the length of the run of spaces at the start of s from position i
RECURSIVE LeadingSpaces(_, _)
LeadingSpaces(s, i) ==
    IF i <= Len(s) /\ CharAt(s, i) = " " THEN 1 + LeadingSpaces(s, i + 1) ELSE 0

RECURSIVE TrailingSpaces(_, _)
TrailingSpaces(s, i) ==
    IF i >= 1 /\ CharAt(s, i) = " " THEN 1 + TrailingSpaces(s, i - 1) ELSE 0

\* s.trim()
Trim(s) ==
    IF LeadingSpaces(s, 1) = Len(s) THEN ""
    ELSE SubSeq(s, LeadingSpaces(s, 1) + 1, Len(s) - TrailingSpaces(s, Len(s)))

\* toNullableString: null for a missing, empty or blank value, else the trimmed value
toNullableString(value) ==
    IF value = NULL \/ value = "" THEN NULL
    ELSE IF Len(Trim(value)) > 0 THEN Trim(value) ELSE NULL

toUpper(value) ==
    IF toNullableString(value) = NULL THEN NULL ELSE ToUpperCase(toNullableString(value))

EXPRESS_CHECKOUT_EVENT_CODES == {"T0006", "T1106", "T1006"}

\* does sub occur in s
Includes(s, sub) == \E i \in 1..Len(s) : MatchAt(s, sub, i)

isExpressCheckoutPayment(detail) ==
    \/ /\ detail.transaction_event_code # NULL /\ detail.transaction_event_code # ""
       /\ ToUpperCase(detail.transaction_event_code) \in EXPRESS_CHECKOUT_EVENT_CODES
    \/ /\ detail.transaction_event_code_description # NULL
       /\ Includes(ToLowerCase(detail.transaction_event_code_description),
                   "express checkout payment")

PAYPAL_ZERO_DECIMAL_CURRENCIES ==
    { "bif", "clp", "djf", "gnf", "jpy", "kmf", "krw", "mga", "pyg", "rwf", "ugx", "vnd",
      "vuv", "xaf", "xof", "xpf" }

NotANumber == -1000000

\* normalizeAmount of a transaction_amount whose value parses to `value` hundredths
\* (NotANumber when it does not parse): <<minor, major in hundredths>>
normalizeAmount(value, currency_code) ==
    LET normalizedCurrency == IF toUpper(currency_code) = NULL THEN "USD" ELSE toUpper(currency_code)
    IN  IF value = NotANumber \/ value < 0 THEN [minor |-> 0, major |-> 0]
        ELSE IF ToLowerCase(normalizedCurrency) \in PAYPAL_ZERO_DECIMAL_CURRENCIES
        THEN LET minor == (value + 50) \div 100
             IN  [minor |-> minor, major |-> minor * 100]
        ELSE [minor |-> value, major |-> value]

NoRecord == [provider |-> "none"]

\* mapPaypalTransactionToCardInfo: the record, NoRecord for null
mapPaypalTransactionToCardInfo(detail) ==
    LET amount == normalizeAmount(detail.value, detail.currency_code)
        transactionId == toNullableString(detail.transaction_id)
        orderId == Coalesce2(toNullableString(detail.invoice_id),
                             toNullableString(detail.custom_field))
    IN  IF ~isExpressCheckoutPayment(detail) THEN NoRecord
        ELSE IF transactionId = NULL THEN NoRecord
        ELSE IF orderId = NULL THEN NoRecord
        ELSE [ provider |-> "paypal", orderId |-> orderId, transactionId |-> transactionId,
               amountMinor |-> amount.minor, amountMajor |-> amount.major,
               createdAtUtc |-> detail.transaction_initiation_date,
               status |-> toNullableString(detail.transaction_status),
               currency |-> toUpper(detail.currency_code),
               customerEmail |-> toNullableString(detail.email_address),
               customerPhone |-> toNullableString(detail.phone) ]

\* transactions.map(mapPaypalTransactionToCardInfo).filter(record => record !== null)
MapAndFilter(transactions) ==
    LET mapped == [ k \in 1..Len(transactions) |-> mapPaypalTransactionToCardInfo(transactions[k]) ]
        Kept(r) == r # NoRecord
    IN  SelectSeq(mapped, Kept)

\* parseDate: the first millisecond of a start date, the last of an end date
parseDate(date, field, isStart) ==
    IF ~ISO_DATE_REGEX(date)
    THEN [ok |-> FALSE, instant |-> <<0, 0>>,
          error |-> "Invalid " \o field \o " supplied. Expected format YYYY-MM-DD, received: "
                        \o date]
    ELSE [ok |-> TRUE, error |-> "",
          instant |-> << DateUTC(YearOf(date), MonthOf(date) - 1, DayOf(date)),
                         IF isStart THEN 0 ELSE MsPerDay - 1 >>]

Before(a, b) == a[1] < b[1] \/ (a[1] = b[1] /\ a[2] < b[2])

\* parseDateRange: the range, or the Error thrown
parseDateRange(startDate, endDate) ==
    LET start == parseDate(startDate, "startDate", TRUE)
        end == parseDate(endDate, "endDate", FALSE)
    IN  IF ~start.ok THEN [ok |-> FALSE, error |-> start.error, start |-> <<0, 0>>, end |-> <<0, 0>>]
        ELSE IF ~end.ok THEN [ok |-> FALSE, error |-> end.error, start |-> <<0, 0>>, end |-> <<0, 0>>]
        ELSE IF Before(end.instant, start.instant)
        THEN [ok |-> FALSE, error |-> "endDate must be after startDate",
              start |-> <<0, 0>>, end |-> <<0, 0>>]
        ELSE [ok |-> TRUE, error |-> "", start |-> start.instant, end |-> end.instant]

\* a transaction detail of the reporting API, with the fields the mapping reads
Detail(id, code, invoice, value, currency, status, email) ==
    [ transaction_id |-> id, transaction_event_code |-> code,
      transaction_event_code_description |-> NULL,
      invoice_id |-> invoice, custom_field |-> NULL,
      value |-> value, currency_code |-> currency, transaction_status |-> status,
      transaction_initiation_date |-> "2024-06-04T10:00:00Z",
      email_address |-> email, phone |-> NULL ]

WalletPage1 ==
    << Detail("TX1", "T0006", "INV1", 1050, "usd", "S", "a@example.com"),
       Detail("TX2", "T0400", "INV2", 500, "USD", "S", "b@example.com") >>

WalletPage2 ==
    << Detail("TX3", "t1106", NULL, 700, "USD", "S", NULL),
       Detail("TX4", "T1006", " INV4 ", 105050, "jpy", "REFUNDED", NULL) >>

\* what the reporting service holds: its pages and the total_pages it reports
\* (0 when the field is absent)
WalletRemotes ==
    { [pages |-> <<>>, reported |-> 0],
      [pages |-> <<WalletPage1>>, reported |-> 0],
      [pages |-> <<WalletPage1>>, reported |-> 1],
      [pages |-> <<WalletPage1, WalletPage2>>, reported |-> 0],
      [pages |-> <<WalletPage1, WalletPage2>>, reported |-> 2] }

WalletEntries ==
    { "paypalChargeTool", "paypalChargeSummaryTool", "paypalTopCustomersTool",
      "fetchPaypalCharges" }

\* the JSON body of an OK response for a page
WalletResponse(remote, page) ==
    [ transaction_details |-> IF page <= Len(remote.pages) THEN remote.pages[page] ELSE <<>>,
      total_pages |-> remote.reported ]

WalletIdle ==
    [ pc |-> "idle", entry |-> "", startDate |-> "", endDate |-> "",
      remote |-> [pages |-> <<>>, reported |-> 0],
      start |-> <<0, 0>>, end |-> <<0, 0>>,
      accessToken |-> FALSE,   \* whether getPaypalAccessToken returned a token
      page |-> 0, totalPages |-> 0,
      requests |-> <<>>,       \* the page numbers requested, in the order of the requests
      details |-> <<>>, failure |-> "none",
      outcome |-> [error |-> FALSE, message |-> "", charges |-> <<>>] ]

InitWallet == wallet = WalletIdle

\* an Error is thrown while `failure` is under way: paypalChargeTool catches it, logs it
\* and answers []; the other entry points let it leave execute
WalletThrows(failure, message) ==
    [wallet EXCEPT !.pc = "done", !.failure = failure,
                   !.outcome = IF wallet.entry = "paypalChargeTool"
                               THEN [error |-> FALSE, message |-> "", charges |-> <<>>]
                               ELSE [error |-> TRUE, message |-> message, charges |-> <<>>]]

\* a wallet entry point is executed; the workflow step is given a resolved range
CallWallet(entry, startDate, endDate, remote) ==
    /\ wallet.pc = "idle"
    /\ entry = "fetchPaypalCharges" => ISO_DATE_REGEX(startDate) /\ ISO_DATE_REGEX(endDate)
    /\ wallet' = [wallet EXCEPT !.pc = "parse", !.entry = entry, !.startDate = startDate,
                                !.endDate = endDate, !.remote = remote]
    /\ UNCHANGED <<events, qwindow, sessions, rows, pg, dr, card, roll, fx>>

\* the range of the entry point: parseDateRange in paypalChargeTool, two parseDate calls in
\* the summary tools, Date.parse and the two tests in the workflow step
WalletRange ==
    IF wallet.entry = "paypalChargeTool"
    THEN parseDateRange(wallet.startDate, wallet.endDate)
    ELSE IF wallet.entry \in {"paypalChargeSummaryTool", "paypalTopCustomersTool"}
    THEN LET start == parseDate(wallet.startDate, "startDate", TRUE)
             end == parseDate(wallet.endDate, "endDate", FALSE)
         IN  IF ~start.ok THEN [ok |-> FALSE, error |-> start.error, start |-> <<0, 0>>, end |-> <<0, 0>>]
             ELSE IF ~end.ok THEN [ok |-> FALSE, error |-> end.error, start |-> <<0, 0>>, end |-> <<0, 0>>]
             ELSE [ok |-> TRUE, error |-> "", start |-> start.instant, end |-> end.instant]
    ELSE LET start == DateParse(wallet.startDate)
             end == DateParse(wallet.endDate)
         IN  IF start.nan \/ end.nan
             THEN [ok |-> FALSE, error |-> "Invalid date supplied. Use format YYYY-MM-DD.",
                   start |-> <<0, 0>>, end |-> <<0, 0>>]
             ELSE IF end.day < start.day
             THEN [ok |-> FALSE, error |-> "endDate must be on or after startDate.",
                   start |-> <<0, 0>>, end |-> <<0, 0>>]
             ELSE [ok |-> TRUE, error |-> "", start |-> <<start.day, 0>>, end |-> <<end.day, 0>>]

\* execute up to the call of getPaypalAccessToken
WalletParse ==
    /\ wallet.pc = "parse"
    /\ wallet' = IF ~WalletRange.ok THEN WalletThrows("invalid_range", WalletRange.error)
                 ELSE [wallet EXCEPT !.pc = "token", !.start = WalletRange.start,
                                     !.end = WalletRange.end]
    /\ UNCHANGED <<events, qwindow, sessions, rows, pg, dr, card, roll, fx>>

\* the token response is OK; without an access_token in it the listing is skipped
TokenArrives(hasToken) ==
    /\ wallet.pc = "token"
    /\ wallet' = IF hasToken
                 THEN [wallet EXCEPT !.pc = "listing", !.accessToken = TRUE, !.page = 1,
                                     !.totalPages = 1]
                 ELSE [wallet EXCEPT !.pc = "fetched"]
    /\ UNCHANGED <<events, qwindow, sessions, rows, pg, dr, card, roll, fx>>

\* the token request is rejected or answered with a non-OK status
TokenFails ==
    /\ wallet.pc = "token"
    /\ wallet' = WalletThrows("token", "Failed to fetch PayPal access token")
    /\ UNCHANGED <<events, qwindow, sessions, rows, pg, dr, card, roll, fx>>

\* the turn with totalPages left at its initial 1
WalletListPageFirstOnly ==
    /\ wallet.pc = "listing"
    /\ LET data == WalletResponse(wallet.remote, wallet.page)
       IN  wallet' = [wallet EXCEPT !.requests = Append(@, wallet.page),
                                    !.details = @ \o data.transaction_details,
                                    !.page = @ + 1,
                                    !.pc = IF wallet.page + 1 <= wallet.totalPages
                                           THEN "listing" ELSE "fetched"]
    /\ UNCHANGED <<events, qwindow, sessions, rows, pg, dr, card, roll, fx>>

\* one turn of while (page <= totalPages) with an OK response
WalletListPage ==
    /\ wallet.pc = "listing"
    /\ LET data == WalletResponse(wallet.remote, wallet.page)
           totalPages == IF data.total_pages > 0 THEN data.total_pages ELSE 1
       IN  wallet' = [wallet EXCEPT !.requests = Append(@, wallet.page),
                                    !.details = @ \o data.transaction_details,
                                    !.totalPages = totalPages,
                                    !.page = @ + 1,
                                    !.pc = IF wallet.page + 1 <= totalPages THEN "listing"
                                           ELSE "fetched"]
    /\ UNCHANGED <<events, qwindow, sessions, rows, pg, dr, card, roll, fx>>

\* a page request is rejected or answered with a non-OK status
WalletListFails ==
    /\ wallet.pc = "listing"
    /\ wallet' = [WalletThrows("listing", "Failed to fetch PayPal transactions")
                    EXCEPT !.requests = Append(@, wallet.page)]
    /\ UNCHANGED <<events, qwindow, sessions, rows, pg, dr, card, roll, fx>>

\* fetchPaypalCardInfo maps what was listed and the entry point answers with it (the
\* summary tools: with the rollup of it)
WalletReturns ==
    /\ wallet.pc = "fetched"
    /\ wallet' = [wallet EXCEPT !.pc = "done",
                                !.outcome = [error |-> FALSE, message |-> "",
                                             charges |-> MapAndFilter(wallet.details)]]
    /\ UNCHANGED <<events, qwindow, sessions, rows, pg, dr, card, roll, fx>>

NextWallet ==
    \/ \E entry \in WalletEntries, startDate \in LedgerDates, endDate \in LedgerDates,
          remote \in WalletRemotes : CallWallet(entry, startDate, endDate, remote)
    \/ WalletParse
    \/ \E hasToken \in BOOLEAN : TokenArrives(hasToken)
    \/ TokenFails
    \/ WalletListPage
    \/ WalletListFails
    \/ WalletReturns

\* C11: a failure of the wallet-ledger fetch (the token request or a listing request fails)
\* is caught and answered with an empty result set, not an error, at every wallet entry
\* point: the charge tool, the summary tool, the top-customers tool and the workflow step.
C11_WalletFailureDegradesToEmpty ==
    (wallet.pc = "done" /\ wallet.failure \in {"token", "listing"})
        => (~wallet.outcome.error /\ wallet.outcome.charges = <<>>)

\* the total page count the responses of the listing report, 1 when absent or not
\* positive
ReportedTotal == IF wallet.remote.reported > 0 THEN wallet.remote.reported ELSE 1

RECURSIVE PagesUpTo(_)
\* the transaction details of the pages 1..n of the remote, in page order
PagesUpTo(n) ==
    IF n = 0 THEN <<>>
    ELSE PagesUpTo(n - 1)
             \o (IF n <= Len(wallet.remote.pages) THEN wallet.remote.pages[n] ELSE <<>>)

ListingEnded == wallet.pc \in {"fetched", "done"} /\ wallet.failure = "none"

ListingIsSequential ==
    /\ \A k \in 1..Len(wallet.requests) : wallet.requests[k] = k
    /\ Len(wallet.requests) <= ReportedTotal
    /\ wallet.details = PagesUpTo(IF wallet.failure = "listing"
                                  THEN Len(wallet.requests) - 1 ELSE Len(wallet.requests))
    /\ wallet.pc = "listing" =>
           wallet.accessToken /\ wallet.page = Len(wallet.requests) + 1
    /\ (ListingEnded /\ wallet.accessToken) =>
           /\ Len(wallet.requests) = ReportedTotal
           /\ wallet.details = PagesUpTo(ReportedTotal)
           /\ wallet.pc = "done" =>
                  ~wallet.outcome.error
                      /\ wallet.outcome.charges = MapAndFilter(PagesUpTo(ReportedTotal))

NoTokenNoRequest ==
    /\ ~wallet.accessToken => wallet.requests = <<>>
    /\ (ListingEnded /\ ~wallet.accessToken) =>
           /\ wallet.details = <<>>
           /\ wallet.pc = "done" => ~wallet.outcome.error /\ wallet.outcome.charges = <<>>

FailedPageAborts ==
    wallet.failure = "listing" =>
        /\ wallet.pc = "done"
        /\ wallet.requests[Len(wallet.requests)] = Len(wallet.requests)
        /\ wallet.outcome.charges = <<>>
        /\ wallet.outcome.error \/ wallet.entry = "paypalChargeTool"

\* C30: the wallet-ledger transaction listing requests the pages 1, 2, ..., T one at
\* a time in increasing order, each exactly once, T being the total page count the
\* responses report (1 when absent or not positive); it terminates after page T (the
\* listing has returned at "fetched", has thrown at "done") and returns the
\* transaction details of all the pages in page order.  When no access
\* token is obtained it returns an empty list without a listing request, and a
\* non-OK response on a page ends the listing in an error, the pages fetched so far
\* not being returned.
C30_ListingIsSequentialAndTerminates ==
    /\ [](ListingIsSequential /\ NoTokenNoRequest /\ FailedPageAborts)
    /\ (wallet.pc = "listing") ~> (wallet.pc \in {"fetched", "done"})

\* a listing of two reported pages, finished after its two requests
C30_Witness ==
    /\ wallet.pc = "done"
    /\ wallet.accessToken
    /\ wallet.failure = "none"
    /\ wallet.remote.reported = 2
    /\ wallet.requests = <<1, 2>>
    /\ wallet.details = WalletPage1 \o WalletPage2

\* C12: an invalid range given to the card charge fetch (a date not in YYYY-MM-DD form, or
\* endDate before startDate) ends in an error naming the offending field, never in a
\* successful empty result.
C12_InvalidRangeIsAnError ==
    (card.pc = "done" /\ card.failure = "invalid_range") => card.outcome.error

-----------------------------------------------------------------------------
(* The analytics workflow: resolve-date-range, then fetch-stripe-charges,   *)
(* then fetch-paypal-charges, each step given the output of the one before. *)

\* the dates a caller passes to the workflow
WorkflowDates == { Undefined, "2024-06-01", "2024-06-07", "2024-06-10" }

\* the Error a fetch step throws on its own tests of Date.parse(startDate) and
\* Date.parse(endDate), "" when it throws none
StepRangeError(startDate, endDate) ==
    LET start == DateParse(startDate)
        end == DateParse(endDate)
    IN  IF start.nan \/ end.nan THEN "Invalid date supplied. Use format YYYY-MM-DD."
        ELSE IF end.day < start.day THEN "endDate must be on or after startDate."
        ELSE ""

\* fetch-stripe-charges up to the call getStripeCharges(startDate, endDate), on the
\* range resolve-date-range returned
StepFetchStripeCharges(ledger) ==
    /\ dr.pc = "done"
    /\ dr.result.ok
    /\ card.pc = "idle"
    /\ LET thrown == StepRangeError(dr.result.startDate, dr.result.endDate)
           called == [card EXCEPT !.entry = "fetchStripeCharges",
                                  !.startDate = dr.result.startDate,
                                  !.endDate = dr.result.endDate, !.ledger = ledger]
       IN  card' = IF thrown # ""
                   THEN [called EXCEPT !.pc = "done", !.failure = "invalid_range",
                                       !.error = thrown,
                                       !.outcome = [error |-> TRUE, kind |-> "",
                                                    charges |-> <<>>]]
                   ELSE [called EXCEPT !.pc = "try"]
    /\ UNCHANGED <<events, qwindow, sessions, rows, pg, dr, wallet, roll, fx>>

\* fetch-paypal-charges is executed on the output of fetch-stripe-charges
StepFetchPaypalCharges(remote) ==
    /\ card.pc = "done"
    /\ card.entry = "fetchStripeCharges"
    /\ ~card.outcome.error
    /\ wallet.pc = "idle"
    /\ wallet' = [wallet EXCEPT !.pc = "parse", !.entry = "fetchPaypalCharges",
                                !.startDate = card.startDate, !.endDate = card.endDate,
                                !.remote = remote]
    /\ UNCHANGED <<events, qwindow, sessions, rows, pg, dr, card, roll, fx>>

NextWorkflow ==
    \/ \E startDate \in WorkflowDates, endDate \in WorkflowDates, ref \in ReferenceTimes :
          ResolveDateRange(startDate, endDate, HoursOf(ref))
    \/ \E ledger \in Ledgers : StepFetchStripeCharges(ledger)
    \/ ParseRange
    \/ ListPage
    \/ \E cause \in ListFailures : ListFails(cause)
    \/ CardToolReturns
    \/ \E remote \in WalletRemotes : StepFetchPaypalCharges(remote)
    \/ WalletParse
    \/ \E hasToken \in BOOLEAN : TokenArrives(hasToken)
    \/ TokenFails
    \/ WalletListPage
    \/ WalletListFails
    \/ WalletReturns

\* both fetch steps of one run have fixed the window they query
BothWindowsFixed ==
    /\ card.entry = "fetchStripeCharges"
    /\ card.pc \in {"listing", "returned", "done"}
    /\ card.failure # "invalid_range"
    /\ wallet.entry = "fetchPaypalCharges"
    /\ wallet.pc \in {"token", "listing", "fetched", "done"}
    /\ wallet.failure # "invalid_range"

\* some instants of a day, in seconds since its 00:00:00
SecondsOfDay == { 0, 1, SecondsPerDay \div 2, SecondsPerDay - 1 }

InCardWindow(day, second) ==
    /\ card.gte <= day * SecondsPerDay + second
    /\ day * SecondsPerDay + second <= card.lte

InWalletWindow(day, second) ==
    /\ ~Before(<<day, second * 1000>>, wallet.start)
    /\ ~Before(wallet.end, <<day, second * 1000>>)

\* C29: in the analytics workflow, for every resolved range [startDate, endDate] the
\* card-ledger fetch and the wallet-ledger fetch query the same inclusive UTC window,
\* from 00:00:00 of startDate through the last instant of endDate, so that a
\* transaction created at any time during endDate is within the window of both
\* ledgers.
C29_LedgersQuerySameWindow ==
    BothWindowsFixed =>
        LET startDay == DateParse(card.startDate).day
            endDay == DateParse(card.endDate).day
        IN  /\ card.gte = startDay * SecondsPerDay
            /\ card.lte = endDay * SecondsPerDay + (SecondsPerDay - 1)
            /\ wallet.start = <<startDay, 0>>
            /\ wallet.end = <<endDay, MsPerDay - 1>>
            /\ \A second \in SecondsOfDay :
                   InCardWindow(endDay, second) /\ InWalletWindow(endDay, second)

-----------------------------------------------------------------------------
(* The rollups of the card ledger.  A major-unit amount is held in          *)
(* hundredths: 10.50 is 1050.  A Map is the sequence of its keys in         *)
(* insertion order.                                                         *)

RECURSIVE SumSeq(_)
SumSeq(ns) == IF Len(ns) = 0 THEN 0 ELSE SumSeq(SubSeq(ns, 1, Len(ns) - 1)) + ns[Len(ns)]

Elements(sq) == { sq[k] : k \in 1..Len(sq) }

\* the keys a Map holds after the keys of ks were set in order
RECURSIVE KeysInOrder(_)
KeysInOrder(ks) ==
    IF Len(ks) = 0 THEN <<>>
    ELSE LET before == KeysInOrder(SubSeq(ks, 1, Len(ks) - 1))
         IN  IF ks[Len(ks)] \in Elements(before) THEN before ELSE Append(before, ks[Len(ks)])

\* Number((numerator / denominator).toFixed(0)) for numerator >= 0, a tie rounded up
DivideRounded(numerator, denominator) == (2 * numerator + denominator) \div (2 * denominator)

InsertTiesByRun(sorted, e) ==
    LET above == { k \in 1..Len(sorted) :
                     IF roll.runs % 2 = 0 THEN sorted[k].grossAmountMajor >= e.grossAmountMajor
                     ELSE sorted[k].grossAmountMajor > e.grossAmountMajor }
    IN  SubSeq(sorted, 1, Cardinality(above)) \o <<e>>
            \o SubSeq(sorted, Cardinality(above) + 1, Len(sorted))

\* e put into a sequence sorted by (a, b) => b.grossAmountMajor - a.grossAmountMajor,
\* behind the entries that compare equal to it
InsertByGross(sorted, e) ==
    LET above == { k \in 1..Len(sorted) : sorted[k].grossAmountMajor >= e.grossAmountMajor }
    IN  SubSeq(sorted, 1, Cardinality(above)) \o <<e>>
            \o SubSeq(sorted, Cardinality(above) + 1, Len(sorted))

\* entries.sort((a, b) => b.grossAmountMajor - a.grossAmountMajor): a stable sort
RECURSIVE SortByGrossDesc(_)
SortByGrossDesc(entries) ==
    IF Len(entries) = 0 THEN <<>>
    ELSE InsertByGross(SortByGrossDesc(SubSeq(entries, 1, Len(entries) - 1)),
                       entries[Len(entries)])

\* array.slice(0, n)
Slice(sq, n) == SubSeq(sq, 1, Min2(n, Len(sq)))

ZERO_DECIMAL_CURRENCIES ==
    { "bif", "clp", "djf", "gnf", "jpy", "kmf", "krw", "mga", "pyg", "rwf", "ugx", "vnd",
      "vuv", "xaf", "xof", "xpf" }

convertCaseSensitive(amount, currency) ==
    IF currency \in ZERO_DECIMAL_CURRENCIES THEN amount * 100 ELSE amount

\* convertToMajorUnits: Number((amount / divisor).toFixed(2)), in hundredths
convertToMajorUnits(amount, currency) ==
    IF ToLowerCase(currency) \in ZERO_DECIMAL_CURRENCIES THEN amount * 100 ELSE amount

sumMajorAmount(charges) ==
    SumSeq([ k \in 1..Len(charges) |-> convertToMajorUnits(charges[k].amount, charges[k].currency) ])

\* the charges of a sequence whose key is k, in order
WithKey(charges, Key(_), k) == LET Has(c) == Key(c) = k IN SelectSeq(charges, Has)

Amounts(charges) == [ k \in 1..Len(charges) |-> charges[k].amount ]

CurrencyKeyAsGiven(charge) == charge.currency

\* charge.currency.toLowerCase()
CurrencyKey(charge) == ToLowerCase(charge.currency)

aggregateByCurrency(charges) ==
    LET keys == KeysInOrder([ k \in 1..Len(charges) |-> CurrencyKey(charges[k]) ])
        Refunded(c) == c.refunded
        Entry(currency) ==
            LET mine == WithKey(charges, CurrencyKey, currency)
                grossAmountMajor == convertToMajorUnits(SumSeq(Amounts(mine)), currency)
            IN  [ currency |-> currency,
                  chargeCount |-> Len(mine),
                  refundedCount |-> Len(SelectSeq(mine, Refunded)),
                  grossAmountMinor |-> SumSeq(Amounts(mine)),
                  grossAmountMajor |-> grossAmountMajor,
                  averageTicketMajor |-> DivideRounded(grossAmountMajor, Len(mine)) ]
    IN  SortByGrossDesc([ k \in 1..Len(keys) |-> Entry(keys[k]) ])

\* charge.card?.brand ?? 'unknown'
BrandKey(charge) == IF charge.brand = NULL THEN "unknown" ELSE charge.brand

aggregateCardBrands(charges) ==
    LET keys == KeysInOrder([ k \in 1..Len(charges) |-> BrandKey(charges[k]) ])
        Entry(brand) ==
            LET mine == WithKey(charges, BrandKey, brand)
            IN  [ brand |-> brand, chargeCount |-> Len(mine),
                  grossAmountMinor |-> SumSeq(Amounts(mine)),
                  grossAmountMajor |-> sumMajorAmount(mine) ]
    IN  SortByGrossDesc([ k \in 1..Len(keys) |-> Entry(keys[k]) ])

ProductKey(charge) == charge.product_name

TopProductsLimit == 10

aggregateProducts(charges) ==
    LET Named(c) == c.product_name # NULL /\ c.product_name # ""
        named == SelectSeq(charges, Named)
        keys == KeysInOrder([ k \in 1..Len(named) |-> ProductKey(named[k]) ])
        Entry(productName) ==
            LET mine == WithKey(named, ProductKey, productName)
            IN  [ productName |-> productName, chargeCount |-> Len(mine),
                  grossAmountMinor |-> SumSeq(Amounts(mine)),
                  grossAmountMajor |-> sumMajorAmount(mine) ]
    IN  Slice(SortByGrossDesc([ k \in 1..Len(keys) |-> Entry(keys[k]) ]), TopProductsLimit)

\* the <<key, value>> entries of the metadataAmounts of charges, in order
RECURSIVE MetadataEntries(_)
MetadataEntries(charges) ==
    IF Len(charges) = 0 THEN <<>>
    ELSE MetadataEntries(SubSeq(charges, 1, Len(charges) - 1))
            \o charges[Len(charges)].metadataAmounts

\* aggregateMetadataTotals (and mergeMetadataTotals, charge by charge): <<key, total>>
aggregateMetadataTotals(charges) ==
    LET all == MetadataEntries(charges)
        keys == KeysInOrder([ k \in 1..Len(all) |-> all[k][1] ])
        Total(key) ==
            LET Mine(e) == e[1] = key
                mine == SelectSeq(all, Mine)
            IN  SumSeq([ k \in 1..Len(mine) |-> mine[k][2] ])
    IN  [ k \in 1..Len(keys) |-> <<keys[k], Total(keys[k])>> ]

\* value.toLocaleString('en-US') of a whole number >= 0: digits in groups of three
RECURSIVE GroupThousands(_)
GroupThousands(n) ==
    IF n < 1000 THEN IntToString(n)
    ELSE GroupThousands(n \div 1000) \o "," \o PadStart(IntToString(n % 1000), 3)

\* formatMajor: value.toLocaleString('en-US', two fraction digits), value in hundredths
formatMajor(value) ==
    GroupThousands(value \div 100) \o "." \o PadStart(IntToString(value % 100), 2)

\* formatPercentage((part / whole) * 100): toFixed(1) and a percent sign
formatPercentage(part, whole) ==
    LET tenths == DivideRounded(part * 1000, whole)
    IN  IntToString(tenths \div 10) \o "." \o IntToString(tenths % 10) \o "%"

\* formatDate: new Date(unixSeconds * 1000).toISOString().split('T')[0]
formatDate(unixSeconds) == formatISODate(unixSeconds \div SecondsPerDay)

\* entries.filter(([, value]) => value !== 0).sort by Math.abs(value) descending, values >= 0
RECURSIVE SortByValueDesc(_)
SortByValueDesc(entries) ==
    IF Len(entries) = 0 THEN <<>>
    ELSE LET sorted == SortByValueDesc(SubSeq(entries, 1, Len(entries) - 1))
             e == entries[Len(entries)]
             above == { k \in 1..Len(sorted) : sorted[k][2] >= e[2] }
         IN  SubSeq(sorted, 1, Cardinality(above)) \o <<e>>
                 \o SubSeq(sorted, Cardinality(above) + 1, Len(sorted))

\* entries.slice(0, 2).map(([key, value]) => `${key}: ${formatMajor(value)}`).join(', ')
MetadataHighlights(metadataTotals) ==
    LET NonZero(e) == e[2] # 0
        top == Slice(SortByValueDesc(SelectSeq(metadataTotals, NonZero)), 2)
        Shown(e) == e[1] \o ": " \o formatMajor(e[2])
    IN  IF Len(top) = 0 THEN ""
        ELSE IF Len(top) = 1 THEN Shown(top[1])
        ELSE Shown(top[1]) \o ", " \o Shown(top[2])

generateChargeSummaryInsights(p) ==
    IF p.totalCharges = 0
    THEN << "No successful charges were recorded between " \o p.startDate \o " and "
                \o p.endDate \o "." >>
    ELSE << "Processed " \o IntToString(p.totalCharges) \o " charges from " \o p.startDate
                \o " to " \o p.endDate \o "; " \o IntToString(p.refundedCharges) \o " ("
                \o formatPercentage(p.refundedCharges, p.totalCharges) \o ") were refunded." >>
         \o (IF Len(p.currencyBreakdown) = 0 THEN <<>>
             ELSE LET topCurrency == p.currencyBreakdown[1]
                  IN  << ToUpperCase(topCurrency.currency) \o " led charge volume with "
                             \o IntToString(topCurrency.chargeCount) \o " charges totaling "
                             \o formatMajor(topCurrency.grossAmountMajor) \o "; "
                             \o formatMajor(topCurrency.averageTicketMajor)
                             \o " average ticket." >>)
         \o (IF Len(p.cardBrandBreakdown) = 0 THEN <<>>
             ELSE LET topBrand == p.cardBrandBreakdown[1]
                  IN  << topBrand.brand \o " cards contributed "
                             \o formatMajor(topBrand.grossAmountMajor) \o " across "
                             \o IntToString(topBrand.chargeCount) \o " charges." >>)
         \o (IF Len(p.topProducts) = 0 THEN <<>>
             ELSE LET leadingProduct == p.topProducts[1]
                  IN  << leadingProduct.productName \o " was the top product with "
                             \o formatMajor(leadingProduct.grossAmountMajor) \o " over "
                             \o IntToString(leadingProduct.chargeCount) \o " charges." >>)
         \o (IF MetadataHighlights(p.metadataTotals) = "" THEN <<>>
             ELSE << "Metadata totals highlight " \o MetadataHighlights(p.metadataTotals)
                         \o "." >>)

buildChargeSummary(startDate, endDate, charges) ==
    LET Refunded(c) == c.refunded
        summary ==
            [ range |-> [startDate |-> startDate, endDate |-> endDate],
              totalCharges |-> Len(charges),
              refundedCharges |-> Len(SelectSeq(charges, Refunded)),
              currencyBreakdown |-> aggregateByCurrency(charges),
              cardBrandBreakdown |-> aggregateCardBrands(charges),
              topProducts |-> aggregateProducts(charges),
              metadataTotals |-> aggregateMetadataTotals(charges) ]
    IN  [ summary |-> summary,
          insights |-> generateChargeSummaryInsights(
              [ startDate |-> startDate, endDate |-> endDate,
                totalCharges |-> summary.totalCharges,
                refundedCharges |-> summary.refundedCharges,
                currencyBreakdown |-> summary.currencyBreakdown,
                cardBrandBreakdown |-> summary.cardBrandBreakdown,
                topProducts |-> summary.topProducts,
                metadataTotals |-> summary.metadataTotals ]) ]

topCustomerInsightsUnguarded(p) ==
    << IntToString(p.totalCustomers) \o " customers transacted between " \o p.startDate
           \o " and " \o p.endDate \o "; top " \o IntToString(Len(p.topCustomers))
           \o " accounted for " \o formatMajor(0) \o "." >>

generateTopCustomerInsights(p) ==
    IF p.totalCustomers = 0
    THEN << "No customer activity detected between " \o p.startDate \o " and " \o p.endDate
                \o "." >>
    ELSE LET displayedCount == Len(p.topCustomers)
             displayedGross ==
                 SumSeq([ k \in 1..displayedCount |-> p.topCustomers[k].grossAmountMajor ])
         IN  << IntToString(p.totalCustomers) \o " customers transacted between "
                    \o p.startDate \o " and " \o p.endDate \o "; top "
                    \o IntToString(displayedCount) \o " accounted for "
                    \o formatMajor(displayedGross) \o "." >>
             \o (IF displayedCount = 0 THEN <<>>
                 ELSE LET leader == p.topCustomers[1]
                      IN  << "Top customer " \o leader.customerId \o " generated "
                                 \o formatMajor(leader.grossAmountMajor) \o " across "
                                 \o IntToString(leader.chargeCount)
                                 \o " charges; last purchase on "
                                 \o formatDate(leader.lastChargeCreated) \o "." >>
                          \o (IF Len(leader.currencyBreakdown) = 0 THEN <<>>
                              ELSE << leader.customerId \o " primarily paid in "
                                          \o ToUpperCase(leader.currencyBreakdown[1].currency)
                                          \o " totaling "
                                          \o formatMajor(leader.currencyBreakdown[1].grossAmountMajor)
                                          \o "." >>)
                          \o (IF MetadataHighlights(leader.metadataTotals) = "" THEN <<>>
                              ELSE << "Key metadata for " \o leader.customerId \o ": "
                                          \o MetadataHighlights(leader.metadataTotals) \o "." >>))
             \o (IF p.totalCustomers > displayedCount
                 THEN << "Only top " \o IntToString(displayedCount) \o " of "
                             \o IntToString(p.totalCustomers) \o " customers shown (limit "
                             \o IntToString(p.limit) \o ")." >>
                 ELSE <<>>)

\* charge.customerId ?? 'unknown'
CustomerKey(charge) == IF charge.customerId = NULL THEN "unknown" ELSE charge.customerId

RECURSIVE LastChargeAfter(_, _)
\* the charge a customer's entry holds as lastChargeId / lastChargeCreated once the
\* loop has been through the customer's first n charges: the first charge creates the
\* entry, a later one replaces it only if charge.created > existing.lastChargeCreated
LastChargeAfter(mine, n) ==
    IF n = 1 THEN mine[1]
    ELSE LET existing == LastChargeAfter(mine, n - 1)
         IN  IF mine[n].created > existing.created THEN mine[n] ELSE existing

\* the entry replaced on charge.created >= existing.lastChargeCreated
LastChargeOfTies(mine) ==
    LET latest == LastChargeAfter(mine, Len(mine))
        k == CHOOSE k \in 1..Len(mine) :
                 /\ mine[k].created = latest.created
                 /\ \A j \in (k + 1)..Len(mine) : mine[j].created # latest.created
    IN  mine[k]

\* the charge a customer's lastChargeId / lastChargeCreated are taken from
LastCharge(mine) == LastChargeAfter(mine, Len(mine))

TakeAllCustomers(customers, limit) == customers

\* .slice(0, limit)
TakeTop(customers, limit) == Slice(customers, limit)

buildTopCustomersSummary(startDate, endDate, charges, limit) ==
    LET keys == KeysInOrder([ k \in 1..Len(charges) |-> CustomerKey(charges[k]) ])
        Customer(customerId) ==
            LET mine == WithKey(charges, CustomerKey, customerId)
            IN  [ customerId |-> customerId,
                  chargeCount |-> Len(mine),
                  grossAmountMinor |-> SumSeq(Amounts(mine)),
                  grossAmountMajor |-> sumMajorAmount(mine),
                  lastChargeId |-> LastCharge(mine).id,
                  lastChargeCreated |-> LastCharge(mine).created,
                  currencyBreakdown |-> aggregateByCurrency(mine),
                  metadataTotals |-> aggregateMetadataTotals(mine) ]
        customerSummaries ==
            TakeTop(SortByGrossDesc([ k \in 1..Len(keys) |-> Customer(keys[k]) ]), limit)
    IN  [ summary |-> [ range |-> [startDate |-> startDate, endDate |-> endDate],
                        totalCustomers |-> Len(keys),
                        topCustomers |-> customerSummaries ],
          insights |-> generateTopCustomerInsights(
              [ startDate |-> startDate, endDate |-> endDate, totalCustomers |-> Len(keys),
                topCustomers |-> customerSummaries, limit |-> limit ]) ]

-----------------------------------------------------------------------------
(* The rollups of the wallet ledger, over the records                       *)
(* mapPaypalTransactionToCardInfo builds.                                   *)

\* new Date(iso).getTime() of a toISOString() text, as <<day number, second of the day>>
IsoInstant(iso) ==
    << DayNumber(YearOf(iso), MonthOf(iso), DayOf(iso)),
       (ToNumber(SubSeq(iso, 12, 13)) * 60 + ToNumber(SubSeq(iso, 15, 16))) * 60
           + ToNumber(SubSeq(iso, 18, 19)) >>

\* formatDate of a valid ISO text: date.toISOString().slice(0, 10)
paypalFormatDate(iso) == formatISODate(IsoInstant(iso)[1])

isRefunded(status) ==
    IF status = NULL \/ status = "" THEN FALSE
    ELSE LET normalized == ToLowerCase(status)
         IN  Includes(normalized, "refund") \/ normalized = "reversed"
                 \/ normalized = "cancelled"

\* charge.customerEmail ?? charge.customerPhone ?? 'unknown'
deriveCustomerId(charge) ==
    IF charge.customerEmail # NULL THEN charge.customerEmail
    ELSE IF charge.customerPhone # NULL THEN charge.customerPhone
    ELSE "unknown"

\* (charge.currency ?? 'USD').toUpperCase()
paypalCurrencyKey(charge) ==
    ToUpperCase(IF charge.currency = NULL THEN "USD" ELSE charge.currency)

AmountsMinor(charges) == [ k \in 1..Len(charges) |-> charges[k].amountMinor ]

AmountsMajor(charges) == [ k \in 1..Len(charges) |-> charges[k].amountMajor ]

paypalAggregateByCurrency(charges) ==
    LET keys == KeysInOrder([ k \in 1..Len(charges) |-> paypalCurrencyKey(charges[k]) ])
        Refunded(c) == isRefunded(c.status)
        Entry(currency) ==
            LET mine == WithKey(charges, paypalCurrencyKey, currency)
            IN  [ currency |-> currency,
                  transactionCount |-> Len(mine),
                  refundedCount |-> Len(SelectSeq(mine, Refunded)),
                  grossAmountMinor |-> SumSeq(AmountsMinor(mine)),
                  grossAmountMajor |-> SumSeq(AmountsMajor(mine)),
                  averageTicketMajor |-> DivideRounded(SumSeq(AmountsMajor(mine)), Len(mine)) ]
    IN  SortByGrossDesc([ k \in 1..Len(keys) |-> Entry(keys[k]) ])

paypalGenerateChargeSummaryInsights(p) ==
    IF p.totalTransactions = 0
    THEN << "No PayPal transactions recorded between " \o p.startDate \o " and "
                \o p.endDate \o "." >>
    ELSE << "Processed " \o IntToString(p.totalTransactions) \o " PayPal transactions from "
                \o p.startDate \o " to " \o p.endDate \o "; "
                \o IntToString(p.refundedTransactions) \o " ("
                \o formatPercentage(p.refundedTransactions, p.totalTransactions)
                \o ") were refunded or reversed." >>
         \o (IF Len(p.currencyBreakdown) = 0 THEN <<>>
             ELSE LET topCurrency == p.currencyBreakdown[1]
                  IN  << ToUpperCase(topCurrency.currency) \o " led PayPal volume with "
                             \o IntToString(topCurrency.transactionCount)
                             \o " transactions totaling "
                             \o formatMajor(topCurrency.grossAmountMajor) \o "; "
                             \o formatMajor(topCurrency.averageTicketMajor)
                             \o " average ticket." >>)

paypalBuildChargeSummary(startDate, endDate, charges) ==
    LET Refunded(c) == isRefunded(c.status)
        summary ==
            [ range |-> [startDate |-> startDate, endDate |-> endDate],
              totalTransactions |-> Len(charges),
              refundedTransactions |-> Len(SelectSeq(charges, Refunded)),
              currencyBreakdown |-> paypalAggregateByCurrency(charges) ]
    IN  [ summary |-> summary,
          insights |-> paypalGenerateChargeSummaryInsights(
              [ startDate |-> startDate, endDate |-> endDate,
                totalTransactions |-> summary.totalTransactions,
                refundedTransactions |-> summary.refundedTransactions,
                currencyBreakdown |-> summary.currencyBreakdown ]) ]

paypalGenerateTopCustomerInsights(p) ==
    IF p.totalCustomers = 0
    THEN << "No PayPal customer activity detected between " \o p.startDate \o " and "
                \o p.endDate \o "." >>
    ELSE LET displayedCount == Len(p.topCustomers)
             displayedGross ==
                 SumSeq([ k \in 1..displayedCount |-> p.topCustomers[k].grossAmountMajor ])
         IN  << IntToString(p.totalCustomers) \o " PayPal customers transacted between "
                    \o p.startDate \o " and " \o p.endDate \o "; top "
                    \o IntToString(displayedCount) \o " accounted for "
                    \o formatMajor(displayedGross) \o "." >>
             \o (IF displayedCount = 0 THEN <<>>
                 ELSE LET leader == p.topCustomers[1]
                      IN  << "Top customer " \o leader.customerId \o " contributed "
                                 \o formatMajor(leader.grossAmountMajor) \o " across "
                                 \o IntToString(leader.transactionCount)
                                 \o " transactions; last activity "
                                 \o paypalFormatDate(leader.lastTransactionCreated) \o "." >>)
             \o (IF p.totalCustomers > p.limit /\ displayedCount > 0
                 THEN << "Additional " \o IntToString(p.totalCustomers - displayedCount)
                             \o " customers generated the remainder of volume." >>
                 ELSE <<>>)

RECURSIVE LastTransactionAfter(_, _)
\* the transaction a customer's entry holds as lastTransactionId /
\* lastTransactionCreated once the loop has been through the customer's first n
\* transactions: replaced only if new Date(charge.createdAtUtc).getTime() >
\* new Date(existing.lastTransactionCreated).getTime()
LastTransactionAfter(mine, n) ==
    IF n = 1 THEN mine[1]
    ELSE LET existing == LastTransactionAfter(mine, n - 1)
         IN  IF Before(IsoInstant(existing.createdAtUtc), IsoInstant(mine[n].createdAtUtc))
             THEN mine[n]
             ELSE existing

\* the transaction a customer's lastTransactionId / lastTransactionCreated are taken
\* from
LastTransaction(mine) == LastTransactionAfter(mine, Len(mine))

paypalBuildTopCustomersSummary(startDate, endDate, charges, limit) ==
    LET keys == KeysInOrder([ k \in 1..Len(charges) |-> deriveCustomerId(charges[k]) ])
        Customer(customerId) ==
            LET mine == WithKey(charges, deriveCustomerId, customerId)
            IN  [ customerId |-> customerId,
                  transactionCount |-> Len(mine),
                  grossAmountMinor |-> SumSeq(AmountsMinor(mine)),
                  grossAmountMajor |-> SumSeq(AmountsMajor(mine)),
                  lastTransactionId |-> LastTransaction(mine).transactionId,
                  lastTransactionCreated |-> LastTransaction(mine).createdAtUtc,
                  currencyBreakdown |-> paypalAggregateByCurrency(mine) ]
        customerSummaries ==
            TakeTop(SortByGrossDesc([ k \in 1..Len(keys) |-> Customer(keys[k]) ]), limit)
    IN  [ summary |-> [ range |-> [startDate |-> startDate, endDate |-> endDate],
                        totalCustomers |-> Len(keys),
                        topCustomers |-> customerSummaries ],
          insights |-> paypalGenerateTopCustomerInsights(
              [ startDate |-> startDate, endDate |-> endDate, totalCustomers |-> Len(keys),
                topCustomers |-> customerSummaries, limit |-> limit ]) ]

-----------------------------------------------------------------------------
(* The rollups as a state machine: a charge sequence is handed over, and    *)
(* the summary tool and the top-customers tool each build their output      *)
(* from it, up to twice.                                                    *)

MaxRollupCharges == 3

MaxTopLimit == 2

ChargeSummary(id, amount, currency, refunded, customerId, created, brand, product_name,
              metadataAmounts) ==
    [ id |-> id, amount |-> amount, currency |-> currency, refunded |-> refunded,
      customerId |-> customerId, created |-> created, brand |-> brand,
      product_name |-> product_name, metadataAmounts |-> metadataAmounts ]

\* charges getStripeCharges can return
CardCharges ==
    { ChargeSummary("ch_1", 1050, "usd", FALSE, "cus_A", Noon("2024-06-02"), "visa", "Plan",
                    <<>>),
      ChargeSummary("ch_2", 2000, "USD", TRUE, "cus_A", Noon("2024-06-04"), "visa", NULL,
                    << <<"tax", 100>> >>),
      ChargeSummary("ch_3", 1050, "jpy", FALSE, NULL, Noon("2024-06-03"), NULL, "Plan",
                    <<>>),
      ChargeSummary("ch_4", 1050, "usd", FALSE, "cus_B", Noon("2024-06-05"), "mastercard",
                    "", <<>>),
      ChargeSummary("ch_5", 20, "JPY", TRUE, "cus_B", Noon("2024-06-01"), "visa", "Addon",
                    << <<"tax", 50>>, <<"fee", 0>> >>),
      ChargeSummary("ch_6", 20, "usd", FALSE, "cus_A", Noon("2024-06-04"), "visa", "Addon",
                    <<>>) }

CardInfoRecord(transactionId, value, currency_code, createdAtUtc, status, customerEmail,
               customerPhone) ==
    [ provider |-> "paypal", orderId |-> "INV-" \o transactionId,
      transactionId |-> transactionId,
      amountMinor |-> normalizeAmount(value, currency_code).minor,
      amountMajor |-> normalizeAmount(value, currency_code).major,
      createdAtUtc |-> createdAtUtc, status |-> status, currency |-> toUpper(currency_code),
      customerEmail |-> customerEmail, customerPhone |-> customerPhone ]

\* records fetchPaypalCardInfo can return
WalletCharges ==
    { CardInfoRecord("TX1", 1050, "usd", "2024-06-02T10:00:00.000Z", "S", "a@example.com",
                     NULL),
      CardInfoRecord("TX2", 2000, "USD", "2024-06-04T09:30:00.000Z", "Partially_Refunded",
                     "a@example.com", "555 0100"),
      CardInfoRecord("TX3", 105000, "JPY", "2024-06-03T23:59:59.000Z", "S", NULL,
                     "555 0100"),
      CardInfoRecord("TX4", 1050, NULL, "2024-06-05T00:00:00.000Z", "REVERSED", NULL, NULL),
      CardInfoRecord("TX5", 2000, "jpy", "2024-06-01T12:00:00.000Z", "cancelled",
                     "b@example.com", NULL),
      CardInfoRecord("TX6", 1050, "USD", "2024-06-04T09:30:00.000Z", "S", "a@example.com",
                     NULL) }

Ledger == { "card", "wallet" }

ChargePool(ledger) == IF ledger = "card" THEN CardCharges ELSE WalletCharges

\* the sequences of at most n different elements of S
SeqsUpTo(S, n) ==
    { sq \in UNION { [1..m -> S] : m \in 0..n } :
        \A j, k \in 1..Len(sq) : j # k => sq[j] # sq[k] }

RollStart == "2024-06-01"

RollEnd == "2024-06-07"

RollIdle ==
    [ pc |-> "idle", ledger |-> "none", charges |-> <<>>, limit |-> 0,
      runs |-> 0,          \* how many rollups have been built so far
      summaries |-> <<>>,  \* what the summary tool returned, call by call
      tops |-> <<>> ]      \* what the top-customers tool returned, call by call

InitRollups == roll = RollIdle

\* the charges a summary tool got from its ledger, and the limit of the top-customers tool
GiveCharges ==
    /\ roll.pc = "idle"
    /\ \E ledger \in Ledger :
       \E charges \in SeqsUpTo(ChargePool(ledger), MaxRollupCharges) :
       \E limit \in 1..MaxTopLimit :
           roll' = [roll EXCEPT !.pc = "given", !.ledger = ledger, !.charges = charges,
                                !.limit = limit]
    /\ UNCHANGED <<events, qwindow, sessions, rows, pg, dr, card, wallet, fx>>

\* stripeChargeSummaryTool / paypalChargeSummaryTool past the fetch
RunChargeSummary ==
    /\ roll.pc = "given"
    /\ Len(roll.summaries) < 2
    /\ roll' = [roll EXCEPT
                   !.runs = @ + 1,
                   !.summaries = Append(@,
                       IF roll.ledger = "card"
                       THEN buildChargeSummary(RollStart, RollEnd, roll.charges)
                       ELSE paypalBuildChargeSummary(RollStart, RollEnd, roll.charges))]
    /\ UNCHANGED <<events, qwindow, sessions, rows, pg, dr, card, wallet, fx>>

\* stripeTopCustomersTool / paypalTopCustomersTool past the fetch
RunTopCustomers ==
    /\ roll.pc = "given"
    /\ Len(roll.tops) < 2
    /\ roll' = [roll EXCEPT
                   !.runs = @ + 1,
                   !.tops = Append(@,
                       IF roll.ledger = "card"
                       THEN buildTopCustomersSummary(RollStart, RollEnd, roll.charges,
                                                     roll.limit)
                       ELSE paypalBuildTopCustomersSummary(RollStart, RollEnd, roll.charges,
                                                           roll.limit))]
    /\ UNCHANGED <<events, qwindow, sessions, rows, pg, dr, card, wallet, fx>>

NextRollups == GiveCharges \/ RunChargeSummary \/ RunTopCustomers

-----------------------------------------------------------------------------
(* The rollup claims.                                                      *)

IsCard == roll.ledger = "card"

\* the currency a charge is in: an absent wallet currency counts as USD
CurrencyOf(c) == IF IsCard THEN c.currency ELSE IF c.currency = NULL THEN "USD" ELSE c.currency

RefundedCharge(c) == IF IsCard THEN c.refunded ELSE isRefunded(c.status)

MinorOf(c) == IF IsCard THEN c.amount ELSE c.amountMinor

CountOf(e) == IF IsCard THEN e.chargeCount ELSE e.transactionCount

SameCurrency(a, b) == ToUpperCase(a) = ToUpperCase(b)

ChargesIn(currency) ==
    LET In(c) == SameCurrency(CurrencyOf(c), currency) IN SelectSeq(roll.charges, In)

NonIncreasingGross(entries) ==
    \A k \in 1..(Len(entries) - 1) :
        entries[k].grossAmountMajor >= entries[k + 1].grossAmountMajor

\* breakdown is the currency rollup of the charges handed over, its currencies
\* written as Reported writes them
IsCurrencyRollup(breakdown, Reported(_)) ==
    /\ \A k \in 1..Len(roll.charges) :
           Cardinality({ j \in 1..Len(breakdown) :
               SameCurrency(breakdown[j].currency, CurrencyOf(roll.charges[k])) }) = 1
    /\ \A j \in 1..Len(breakdown) :
           LET mine == ChargesIn(breakdown[j].currency)
           IN  /\ Len(mine) > 0
               /\ breakdown[j].currency = Reported(breakdown[j].currency)
               /\ CountOf(breakdown[j]) = Len(mine)
               /\ breakdown[j].refundedCount = Len(SelectSeq(mine, RefundedCharge))
               /\ breakdown[j].grossAmountMinor
                      = SumSeq([ k \in 1..Len(mine) |-> MinorOf(mine[k]) ])
    /\ SumSeq([ j \in 1..Len(breakdown) |-> CountOf(breakdown[j]) ]) = Len(roll.charges)
    /\ NonIncreasingGross(breakdown)

\* the case the card ledger writes currency codes in: charge.currency.toLowerCase()
ReportedCase(currency) == IF IsCard THEN ToLowerCase(currency) ELSE ToUpperCase(currency)

\* C13 as stated: in both ledgers every currency rollup has one entry per distinct
\* currency, compared case-insensitively and reported in upper case, with the count,
\* the refunded count and the minor-unit sum of the charges of that currency, the
\* counts adding up to the number of charges, in non-increasing order of gross major
C13_ReportedUpperCase ==
    \A k \in 1..Len(roll.summaries) :
        IsCurrencyRollup(roll.summaries[k].summary.currencyBreakdown, ToUpperCase)

\* C13 amended: as above, but the currency is reported in upper case by the wallet
\* ledger and in lower case by the card ledger
C13_CurrencyRollup ==
    \A k \in 1..Len(roll.summaries) :
        IsCurrencyRollup(roll.summaries[k].summary.currencyBreakdown, ReportedCase)

\* a card summary of three charges, two of them in one currency written in two cases
\* and one of them refunded, and a wallet summary of a charge without a currency
C13_Witness ==
    /\ Len(roll.summaries) > 0
    /\ Len(roll.charges) = 3
    /\ Len(roll.summaries[1].summary.currencyBreakdown) = 2
    /\ \E a, b \in 1..3 :
           /\ CurrencyOf(roll.charges[a]) # CurrencyOf(roll.charges[b])
           /\ SameCurrency(CurrencyOf(roll.charges[a]), CurrencyOf(roll.charges[b]))
    /\ \E j \in 1..2 : roll.summaries[1].summary.currencyBreakdown[j].refundedCount = 1
    /\ IsCard

\* the customer a charge belongs to: its identifier, else a contact field, else "unknown"
KeyOf(c) ==
    IF IsCard THEN (IF c.customerId # NULL THEN c.customerId ELSE "unknown")
    ELSE IF c.customerEmail # NULL THEN c.customerEmail
    ELSE IF c.customerPhone # NULL THEN c.customerPhone
    ELSE "unknown"

CustomerKeys == { KeyOf(roll.charges[k]) : k \in 1..Len(roll.charges) }

ChargesOf(key) == LET Of(c) == KeyOf(c) = key IN SelectSeq(roll.charges, Of)

MajorOf(c) == IF IsCard THEN convertToMajorUnits(c.amount, c.currency) ELSE c.amountMajor

GrossMajorOf(key) ==
    LET mine == ChargesOf(key) IN SumSeq([ k \in 1..Len(mine) |-> MajorOf(mine[k]) ])

IsCustomerRollup(top) ==
    LET returned == top.summary.topCustomers
        ids == { returned[k].customerId : k \in 1..Len(returned) }
    IN  /\ top.summary.totalCustomers = Cardinality(CustomerKeys)
        /\ Len(returned) = Min2(roll.limit, top.summary.totalCustomers)
        /\ NonIncreasingGross(returned)
        /\ ids \subseteq CustomerKeys
        /\ Cardinality(ids) = Len(returned)
        /\ \A k \in 1..Len(returned) :
               /\ CountOf(returned[k]) = Len(ChargesOf(returned[k].customerId))
               /\ returned[k].grossAmountMajor = GrossMajorOf(returned[k].customerId)
               /\ \A omitted \in CustomerKeys \ ids :
                      GrossMajorOf(omitted) <= returned[k].grossAmountMajor
        /\ Len(returned) = top.summary.totalCustomers
               => SumSeq([ k \in 1..Len(returned) |-> CountOf(returned[k]) ])
                      = Len(roll.charges)

\* C14: in both ledgers the customer rollup reports as totalCustomers the number of
\* distinct customer keys and returns min(limit, totalCustomers) customers in
\* non-increasing order of gross major, none of the omitted ones having a larger
\* gross major than a returned one; each charge is counted under exactly one key,
\* "unknown" when it has neither an identifier nor a contact field
C14_CustomerRollup == \A k \in 1..Len(roll.tops) : IsCustomerRollup(roll.tops[k])

\* a wallet rollup of three customers, one keyed by a phone number and one "unknown",
\* of which the limit lets one through
C14_Witness ==
    /\ ~IsCard
    /\ Len(roll.tops) > 0
    /\ roll.limit = 1
    /\ roll.tops[1].summary.totalCustomers = 3
    /\ Len(roll.tops[1].summary.topCustomers) = 1
    /\ { "555 0100", "unknown" } \subseteq CustomerKeys

\* a major-unit amount written whole.hundredths
MajorUnits(whole, hundredths) == whole * 100 + hundredths

\* minor units divided by 100, except in a zero-decimal currency, whatever the case
\* of its code
ExpectedMajor(minor, currency) ==
    IF ToLowerCase(currency) \in ZERO_DECIMAL_CURRENCIES THEN MajorUnits(minor, 0)
    ELSE MajorUnits(minor \div 100, minor % 100)

\* C15: a minor-unit amount is divided by 100 to give the major-unit amount, except
\* in the zero-decimal currencies, where major = minor, whatever the letter case of
\* the currency code: 1050 minor units are 10.50 in USD and 1050 in JPY; the card
\* and the wallet ledger use the same rule and the same zero-decimal set
C15_MinorToMajor ==
    /\ ZERO_DECIMAL_CURRENCIES = PAYPAL_ZERO_DECIMAL_CURRENCIES
    /\ { "jpy", "krw", "vnd" } \subseteq ZERO_DECIMAL_CURRENCIES
    /\ convertToMajorUnits(1050, "USD") = MajorUnits(10, 50)
    /\ convertToMajorUnits(1050, "JPY") = MajorUnits(1050, 0)
    /\ normalizeAmount(MajorUnits(10, 50), "USD") = [minor |-> 1050, major |-> MajorUnits(10, 50)]
    /\ normalizeAmount(MajorUnits(1050, 0), "JPY") = [minor |-> 1050, major |-> MajorUnits(1050, 0)]
    /\ \A k \in 1..Len(roll.charges) :
           MajorOf(roll.charges[k]) = ExpectedMajor(MinorOf(roll.charges[k]), CurrencyOf(roll.charges[k]))
    /\ \A k \in 1..Len(roll.summaries) :
           LET breakdown == roll.summaries[k].summary.currencyBreakdown
           IN  \A j \in 1..Len(breakdown) :
                   breakdown[j].grossAmountMajor
                       = ExpectedMajor(breakdown[j].grossAmountMinor, breakdown[j].currency)
    /\ \A k \in 1..Len(roll.tops) :
           LET returned == roll.tops[k].summary.topCustomers
           IN  \A j \in 1..Len(returned) :
                   LET mine == ChargesOf(returned[j].customerId)
                   IN  returned[j].grossAmountMajor
                           = SumSeq([ n \in 1..Len(mine) |->
                                 ExpectedMajor(MinorOf(mine[n]), CurrencyOf(mine[n])) ])

\* a card summary with 1050 minor units in usd and 20 in JPY, and a customer of both
C15_Witness ==
    /\ IsCard
    /\ Len(roll.summaries) > 0
    /\ Len(roll.tops) > 0
    /\ \E j \in 1..Len(roll.summaries[1].summary.currencyBreakdown) :
           LET e == roll.summaries[1].summary.currencyBreakdown[j]
           IN  e.currency = "usd" /\ e.grossAmountMinor = 1050
                   /\ e.grossAmountMajor = MajorUnits(10, 50)
    /\ \E j \in 1..Len(roll.summaries[1].summary.currencyBreakdown) :
           LET e == roll.summaries[1].summary.currencyBreakdown[j]
           IN  e.currency = "jpy" /\ e.grossAmountMinor = 20
                   /\ e.grossAmountMajor = MajorUnits(20, 0)
    /\ \E k \in 1..Len(roll.charges) : roll.charges[k].currency = "JPY"
    /\ \E j \in 1..Len(roll.tops[1].summary.topCustomers) :
           roll.tops[1].summary.topCustomers[j].grossAmountMajor = MajorUnits(30, 50)

EmptySummary(out) ==
    /\ out.summary.refundedCharges = 0
    /\ out.summary.totalCharges = 0
    /\ out.summary.currencyBreakdown = <<>>
    /\ out.summary.cardBrandBreakdown = <<>>
    /\ out.summary.topProducts = <<>>
    /\ out.summary.metadataTotals = <<>>
    /\ out.insights
           = << "No successful charges were recorded between " \o RollStart \o " and "
                    \o RollEnd \o "." >>

paypalEmptySummary(out) ==
    /\ out.summary.refundedTransactions = 0
    /\ out.summary.totalTransactions = 0
    /\ out.summary.currencyBreakdown = <<>>
    /\ out.insights
           = << "No PayPal transactions recorded between " \o RollStart \o " and "
                    \o RollEnd \o "." >>

EmptyTop(out) ==
    /\ out.summary.totalCustomers = 0
    /\ out.summary.topCustomers = <<>>
    /\ out.insights
           = << (IF IsCard THEN "No customer activity detected between "
                 ELSE "No PayPal customer activity detected between ")
                    \o RollStart \o " and " \o RollEnd \o "." >>

\* C16: for an empty charge set the rollups of both ledgers return zero totals, empty
\* collections for every aggregate, and exactly one insight, the sentence saying that
\* there was no activity
C16_EmptyChargeSet ==
    roll.charges = <<>> =>
        /\ \A k \in 1..Len(roll.summaries) :
               IF IsCard THEN EmptySummary(roll.summaries[k])
               ELSE paypalEmptySummary(roll.summaries[k])
        /\ \A k \in 1..Len(roll.tops) : EmptyTop(roll.tops[k])

\* both card tools have answered for an empty charge set
C16_Witness ==
    /\ roll.pc = "given"
    /\ IsCard
    /\ roll.charges = <<>>
    /\ Len(roll.summaries) > 0
    /\ Len(roll.tops) > 0
    /\ Len(roll.tops[1].insights) = 1

IdOf(c) == IF IsCard THEN c.id ELSE c.transactionId

\* the creation time as the ledger's record carries it
CreatedOf(c) == IF IsCard THEN c.created ELSE c.createdAtUtc

\* the creation time as an instant: <<day number, second of the day>> in the wallet
\* ledger, the Unix seconds in the card ledger
InstantOf(c) == IF IsCard THEN <<0, c.created>> ELSE IsoInstant(c.createdAtUtc)

LastIdOf(entry) == IF IsCard THEN entry.lastChargeId ELSE entry.lastTransactionId

LastAtOf(entry) == IF IsCard THEN entry.lastChargeCreated ELSE entry.lastTransactionCreated

\* entry's last charge is the first supplied of its customer's latest charges
HoldsLatestCharge(entry) ==
    LET mine == ChargesOf(entry.customerId)
    IN  \E k \in 1..Len(mine) :
            /\ IdOf(mine[k]) = LastIdOf(entry)
            /\ CreatedOf(mine[k]) = LastAtOf(entry)
            /\ \A j \in 1..Len(mine) : ~Before(InstantOf(mine[k]), InstantOf(mine[j]))
            /\ \A j \in 1..(k - 1) : Before(InstantOf(mine[j]), InstantOf(mine[k]))

\* C27: in the customer rollup of either ledger, the last charge of each returned
\* customer (its identifier and its creation time) is a charge of that customer whose
\* creation time is the maximum over the customer's charges, in whatever order the
\* charges were supplied, and of the charges tied on that maximum it is the one
\* supplied first
C27_LastChargeIsLatest ==
    \A k \in 1..Len(roll.tops) :
        \A j \in 1..Len(roll.tops[k].summary.topCustomers) :
            HoldsLatestCharge(roll.tops[k].summary.topCustomers[j])

\* a wallet rollup of one customer's three transactions, supplied latest first, then
\* an earlier one, then one tied with the first: the first is kept
C27_Witness ==
    /\ ~IsCard
    /\ Len(roll.tops) > 0
    /\ [ k \in 1..Len(roll.charges) |-> roll.charges[k].transactionId ]
           = <<"TX6", "TX1", "TX2">>
    /\ roll.charges[1].createdAtUtc = roll.charges[3].createdAtUtc
    /\ Len(roll.tops[1].summary.topCustomers) = 1
    /\ roll.tops[1].summary.topCustomers[1].lastTransactionId = "TX6"

-----------------------------------------------------------------------------
(* The currency conversion tool.  A rate is held in ten-thousandths        *)
(* (0.0064 is 64, 1 is 10000), an amount in hundredths.  An object is the   *)
(* sequence of its <<key, value>> entries in insertion order.              *)

HasKey(obj, key) == \E i \in 1..Len(obj) : obj[i][1] = key

Get(obj, key) == obj[CHOOSE i \in 1..Len(obj) : obj[i][1] = key][2]

\* obj[key] = value: a new key goes to the end, a key the object has keeps its place
Put(obj, key, value) ==
    IF HasKey(obj, key)
    THEN [ i \in 1..Len(obj) |-> IF obj[i][1] = key THEN <<key, value>> ELSE obj[i] ]
    ELSE Append(obj, <<key, value>>)

\* Object.fromEntries(entries)
RECURSIVE FromEntries(_)
FromEntries(entries) ==
    IF entries = <<>> THEN <<>>
    ELSE LET last == entries[Len(entries)]
         IN  Put(FromEntries(SubSeq(entries, 1, Len(entries) - 1)), last[1], last[2])

\* Number.isFinite(numeric) && numeric > 0
Usable(value) == value # NotANumber /\ value > 0

normalizeRatesKeysAsGiven(raw) ==
    FromEntries(SelectSeq(raw, LAMBDA e : Usable(e[2])))

\* normalizeRates: the entries with a finite, positive value, their keys in upper case
normalizeRates(raw) ==
    LET kept == SelectSeq(raw, LAMBDA e : Usable(e[2]))
    IN  FromEntries([ i \in 1..Len(kept) |-> <<ToUpperCase(kept[i][1]), kept[i][2]>> ])

\* what the rates service may answer
FxResponses ==
    { [ kind |-> "rates", rates |-> << <<"JPY", 66>>, <<"EUR", 10900>>, <<"XXX", 0>> >> ],
      [ kind |-> "rates", rates |-> << <<"XXX", 0>>, <<"YYY", NotANumber>> >> ],
      [ kind |-> "not_ok", rates |-> <<>> ],
      [ kind |-> "non_json", rates |-> <<>> ],
      [ kind |-> "no_rates", rates |-> <<>> ] }

FxThrow(message) ==
    [ ok |-> FALSE, error |-> message, currency |-> "", amount |-> 0, usdAmount |-> 0,
      rateUsed |-> 0, rateSource |-> "" ]

\* fetchUsdRates, given the answer of the service
fetchUsdRates(response) ==
    IF response.kind = "not_ok"
    THEN [ ok |-> FALSE, error |-> "Failed to fetch FX rates", rates |-> <<>> ]
    ELSE IF response.kind = "non_json"
    THEN [ ok |-> FALSE, error |-> "Unexpected FX response (non-JSON)", rates |-> <<>> ]
    ELSE IF response.kind = "no_rates"
    THEN [ ok |-> FALSE, error |-> "Unexpected FX response shape", rates |-> <<>> ]
    ELSE LET normalized == normalizeRates(response.rates)
         IN  IF Len(normalized) = 0
             THEN [ ok |-> FALSE, error |-> "No usable FX rates returned", rates |-> <<>> ]
             ELSE [ ok |-> TRUE, error |-> "", rates |-> normalized ]

\* resolveRate
resolveRate(currency, rates, rateSource) ==
    IF currency = "USD" THEN [ ok |-> TRUE, rate |-> 10000, source |-> "default" ]
    ELSE IF HasKey(rates, currency)
    THEN [ ok |-> TRUE, rate |-> Get(rates, currency), source |-> rateSource ]
    ELSE [ ok |-> FALSE, rate |-> 0, source |-> "" ]

\* execute past resolveRates: resolveRate, the conversion and the returned object
Convert(currency, amount, rates, rateSource) ==
    LET r == resolveRate(currency, rates, rateSource)
    IN  IF ~r.ok THEN FxThrow("No USD conversion rate available")
        ELSE [ ok |-> TRUE, error |-> "", currency |-> currency, amount |-> amount,
               usdAmount |-> DivideRounded(amount * r.rate, 10000),
               rateUsed |-> r.rate, rateSource |-> r.source ]

FxCurrencies == { "jpy", "JPY", "USD", "usd", "EUR", "thb" }

FxAmounts == { 1050, 2000 }

\* the overrideRates a caller may pass; <<>> is an absent or empty map
FxOverrides ==
    { <<>>,
      << <<"JPY", 64>> >>,
      << <<"jpy", 64>>, <<"JPY", 70>> >>,
      << <<"usd", 9000>>, <<"eur", 10800>> >>,
      << <<"THB", 280>> >> }

FxIdle ==
    [ pc |-> "idle",
      context |-> [ currency |-> "", amount |-> 0, overrideRates |-> <<>> ],
      currency |-> "", amount |-> 0, overrideRates |-> <<>>,
      requests |-> 0,     \* how many times the rates service was asked
      outcome |-> FxThrow("") ]

InitFx == fx = FxIdle

\* execute is entered: currency, amount and overrideRates of the context
FxExecute(currency, amount, overrideRates) ==
    /\ fx.pc \in {"idle", "done"}
    /\ fx' = [ FxIdle EXCEPT !.pc = "resolveRates",
                             !.context = [ currency |-> currency, amount |-> amount,
                                           overrideRates |-> overrideRates ],
                             !.currency = ToUpperCase(currency),
                             !.amount = amount,
                             !.overrideRates = normalizeRates(overrideRates) ]
    /\ UNCHANGED <<events, qwindow, sessions, rows, pg, dr, card, wallet, roll>>

\* resolveRates with a non-empty override map, and the rest of execute
FxUseOverrides ==
    /\ fx.pc = "resolveRates"
    /\ Len(fx.overrideRates) > 0
    /\ fx' = [ fx EXCEPT !.pc = "done",
                         !.outcome = Convert(fx.currency, fx.amount,
                                             normalizeRates(fx.overrideRates), "override") ]
    /\ UNCHANGED <<events, qwindow, sessions, rows, pg, dr, card, wallet, roll>>

\* resolveRates without overrides: fetchUsdRates is awaited, then the rest of execute
FxFetchRemote(response) ==
    /\ fx.pc = "resolveRates"
    /\ Len(fx.overrideRates) = 0
    /\ LET fetched == fetchUsdRates(response)
       IN  fx' = [ fx EXCEPT !.pc = "done",
                             !.requests = @ + 1,
                             !.outcome = IF fetched.ok
                                         THEN Convert(fx.currency, fx.amount, fetched.rates,
                                                      "remote")
                                         ELSE FxThrow(fetched.error) ]
    /\ UNCHANGED <<events, qwindow, sessions, rows, pg, dr, card, wallet, roll>>

NextFx ==
    \/ \E currency \in FxCurrencies, amount \in FxAmounts, overrideRates \in FxOverrides :
           FxExecute(currency, amount, overrideRates)
    \/ FxUseOverrides
    \/ \E response \in FxResponses : FxFetchRemote(response)

-----------------------------------------------------------------------------
(* Claims about the currency conversion tool (SpecFx).                     *)

\* the entries of the caller's override map for a currency code, compared in upper case
GivenFor(code) ==
    { i \in 1..Len(fx.context.overrideRates) :
        ToUpperCase(fx.context.overrideRates[i][1]) = code }

RequestedCode == ToUpperCase(fx.context.currency)

-----------------------------------------------------------------------------

Init ==
    /\ InitWarehouse /\ InitPages /\ InitDates /\ InitCard /\ InitWallet
    /\ InitRollups /\ InitFx

Next ==
    \/ \E e \in EventPool : Ingest(e)
    \/ \E w \in Windows : RunQuery(w)

\* the warehouse and the purchase-sessions query
Spec == Init /\ [][Next]_vars

\* the purchase-sessions tool
SpecPages == Init /\ [][NextPages]_vars

SpecPagesFair == SpecPages /\ WF_vars(NextPages)

\* fetchPurchaseSessions called on its own
SpecFetch == Init /\ [][NextFetch]_vars

\* the date-range resolver
SpecDates == Init /\ [][NextDates]_vars

\* the card ledger
SpecStripe == Init /\ [][NextCard]_vars

\* the wallet ledger
SpecPaypal == Init /\ [][NextWallet]_vars

\* every page request of the listing is answered in the end, OK or not
SpecPaypalFair == SpecPaypal /\ WF_vars(WalletListPage \/ WalletListFails)

SpecRollups == Init /\ [][NextRollups]_vars

\* the analytics workflow
SpecWorkflow == Init /\ [][NextWorkflow]_vars

\* the currency conversion tool
SpecFx == Init /\ [][NextFx]_vars

====
